---------------------------- MODULE Spec2Model ----------------------------
(***************************************************************************)
(* Wireless thermometer firmware (EFM32 Pearl Gecko): the event scheduler, *)
(* the sleep-mode block table, the I2C read engine, the LEUART driver, the *)
(* outbound queue of the BLE module and the main loop, as state machines   *)
(* translated from the C sources.                                          *)
(*                                                                         *)
(* Execution model.  One foreground context (main) and interrupt handlers  *)
(* that preempt it whenever PRIMASK is clear and run to completion.  A     *)
(* handler is one action.  Peripheral hardware is a separate set of        *)
(* actions that raise interrupt flags; a foreground action runs only when  *)
(* no enabled interrupt is pending, because a pending interrupt is taken   *)
(* before the next foreground instruction.                                 *)
(*                                                                         *)
(* EFM_ASSERT(false) halts the program: fatal names the failing site and   *)
(* no action is enabled afterwards.                                        *)
(***************************************************************************)
EXTENDS Integers, Sequences, FiniteSets, TLC

(***************************************************************************)
(* 32-bit words and the C bit operators, computed bit by bit.              *)
(***************************************************************************)
RECURSIVE BitOr(_, _)
BitOr(a, b) ==
    IF a = 0 THEN b
    ELSE IF b = 0 THEN a
    ELSE (IF a % 2 = 1 \/ b % 2 = 1 THEN 1 ELSE 0) + 2 * BitOr(a \div 2, b \div 2)

RECURSIVE BitAnd(_, _)
BitAnd(a, b) ==
    IF a = 0 \/ b = 0 THEN 0
    ELSE (IF a % 2 = 1 /\ b % 2 = 1 THEN 1 ELSE 0) + 2 * BitAnd(a \div 2, b \div 2)

\* a & ~b
RECURSIVE BitAndNot(_, _)
BitAndNot(a, b) ==
    IF a = 0 THEN 0
    ELSE (IF a % 2 = 1 /\ b % 2 = 0 THEN 1 ELSE 0) + 2 * BitAndNot(a \div 2, b \div 2)

\* x << n; the operands here are bytes and bus addresses, far below the 32-bit width
ShiftLeft(x, n) == x * (2 ^ n)

\* the value an unsigned count wraps to below zero: 0xFFFFFFFF in the firmware,
\* held here as the largest representable integer, which likewise exceeds
\* every count a run can work off
UINT_WRAP == 2147483647

\* x - 1 in a uint32_t
Dec32(x) == IF x = 0 THEN UINT_WRAP ELSE x - 1

(***************************************************************************)
(* Event bits.                                                             *)
(***************************************************************************)
LETIMER0_COMP0_EVT == 1
LETIMER0_COMP1_EVT == 2
LETIMER0_UF_EVT == 4
SI7021_READ_EVT == 8
BOOT_UP_EVT == 16
LEUART_TX_EVT == 32
LEUART_RX_EVT == 64

(***************************************************************************)
(* Energy modes of the sleep block table.                                  *)
(***************************************************************************)
EM0 == 0
EM1 == 1
EM2 == 2
EM3 == 3
EM4 == 4
MAX_ENERGY_MODES == 5
I2C_EM_BLOCK == EM2
LEUART_EM == EM3

(***************************************************************************)
(* Bounds of the model.                                                    *)
(***************************************************************************)
MaxBytes == 3          \* largest byte count passed to I2C_Start
MaxDevBytes == 3       \* data bytes the I2C device delivers in one transaction
MaxNack == 2           \* NACKs the I2C device gives to the read address in one transaction
MaxStarts == 2         \* I2C_Start calls in one run
MaxSends == 2          \* leuart_start calls in one run
MaxTxLen == 3          \* longest string handed to leuart_start
MaxLine == 5           \* bytes the far end puts on the LEUART receive line in one run
MaxFrame == 82         \* frames of the one long message the far end sends
MaxPushes == 3            \* calls of ble_circ_push in one run
MaxPops == 4              \* calls of ble_circ_pop in one run
MaxBlocks == 2            \* blocks a client of the block table holds on one level
MaxSignals == 5           \* signals the bus raises in one transaction under free signalling

VARIABLES
    event_scheduled,       \* scheduler.c: static unsigned int event_scheduled
    primask,               \* CPU PRIMASK: TRUE while __disable_irq() is in force
    sch,                   \* the foreground scheduler call in progress
    letimer,               \* LETIMER0 registers: IF, IEN
    lowest_energy_mode,    \* sleep block counts, one per energy mode
    fatal,                 \* "" while running, else the EFM_ASSERT site that halted
    payload,               \* i2c.c: static I2C_PAYLOAD_STRUCT payload
    raw_data,              \* Si7021.c: static uint32_t raw_data (payload.data points here)
    i2c,                   \* I2C0 peripheral: bus phase, STATE, IF, RXDATA
    i2c_hist,              \* history of the current bus transaction
    lePayload,             \* leuart.c: LEUART_PAYLOAD_STRUCT lePayload
    leuart,                \* LEUART0 peripheral: IEN, IF latches, buffers, RXBLOCK
    le_hist,               \* history of the link: bytes written, events posted
    ble_cbuf,              \* ble.c: static BLE_CIRCULAR_BUF ble_cbuf
    ble_hist,              \* history of the queue: the packets pushed and popped
    fg                     \* the foreground: where main stands, and its locals

vars == <<event_scheduled, primask, sch, letimer, lowest_energy_mode, fatal,
          payload, raw_data, i2c, i2c_hist, lePayload, leuart, le_hist,
          ble_cbuf, ble_hist, fg>>

cpuVars == <<primask, sch>>
i2cVars == <<payload, raw_data, i2c, i2c_hist>>
leuartVars == <<lePayload, leuart, le_hist>>
queueVars == <<ble_cbuf, ble_hist>>

(***************************************************************************)
(* Interrupt delivery.                                                     *)
(***************************************************************************)
Running == fatal = ""

\* i2c_open enables these four sources and nothing changes them afterwards
I2C_IEN == {"ACK", "NACK", "MSTOP", "RXDATAV"}

\* LEUART0->IF: the latched flags, plus the two level flags of the buffers
LeuartIF ==
    leuart.IF_
        \cup (IF leuart.rxbuf # <<>> THEN {"RXDATAV"} ELSE {})
        \cup (IF leuart.txbuf = <<>> THEN {"TXBL"} ELSE {})

LetimerIrq == (letimer.IF_ \cap letimer.IEN) # {}
I2cIrq == (i2c.IF_ \cap I2C_IEN) # {}
LeuartIrq == (LeuartIF \cap leuart.IEN) # {}

\* an enabled interrupt is pending and the CPU will take it before anything else
IrqTaken == ~primask /\ (LetimerIrq \/ I2cIrq \/ LeuartIrq)

\* the foreground runs, and peripherals move on, only between interrupts
Foreground == Running /\ ~IrqTaken
Quiescent == Running /\ ~IrqTaken

\* main is between two statements of its loop, inside no call
MainFree == sch.pc = "idle" /\ fg.pc = "run"

\* fg.pc: "run", or "pop_wait" inside ble_circ_pop's wait for the transmitter,
\* or "sleep_call" between main's test of the pending set and enter_sleep,
\* or "asleep" inside enter_sleep; an interrupt ends the sleep
\* fg.length and fg.ret are ble_circ_pop's length and return value, fg.level
\* the energy mode last entered, fg.result_str is test_struct.result_str,
\* fg.op and fg.em the last call of the block table and its argument
CSIZE == 64                \* ble.h: capacity of the outbound queue

\* fg.string and fg.index are ble_circ_push's locals while the call is taken
\* statement by statement, fg.tmp the register a read-modify-write holds
\* fg.at is the statement of main's loop that comes next, fg.seen the pending
\* set at the top of this pass of the loop, fg.ran the handlers run in it
FgRun ==
    [pc |-> "run", length |-> 0, level |-> 0, ret |-> FALSE, op |-> "", em |-> 0,
     result_str |-> [i \in 0 .. (CSIZE - 1) |-> 0],
     at |-> 0, seen |-> 0, ran |-> <<>>,
     string |-> <<>>, index |-> 0, tmp |-> 0]

Wake(f) == IF f.pc = "asleep" THEN [f EXCEPT !.pc = "run"] ELSE f

(***************************************************************************)
(* The machine state the drivers work on, as one record, so that a handler *)
(* that calls several functions is the composition of their effects.       *)
(***************************************************************************)
Cur ==
    [ev |-> event_scheduled, sleep |-> lowest_energy_mode, fatal |-> fatal,
     payload |-> payload, raw_data |-> raw_data, i2c |-> i2c, i2c_hist |-> i2c_hist,
     lePayload |-> lePayload, leuart |-> leuart, le_hist |-> le_hist]

Commit(m) ==
    /\ event_scheduled' = m.ev
    /\ lowest_energy_mode' = m.sleep
    /\ fatal' = m.fatal
    /\ payload' = m.payload
    /\ raw_data' = m.raw_data
    /\ i2c' = m.i2c
    /\ i2c_hist' = m.i2c_hist
    /\ lePayload' = m.lePayload
    /\ leuart' = m.leuart
    /\ le_hist' = m.le_hist

\* EFM_ASSERT(false) at the named site: the first failure halts the program
Halt(m, site) == IF m.fatal = "" THEN [m EXCEPT !.fatal = site] ELSE m

(***************************************************************************)
(* scheduler.c                                                             *)
(***************************************************************************)
\* a scheduler that counts occurrences instead of coalescing them
add_scheduled_event_Counting(ev, event) == ev + event

\* event_scheduled |= event
add_scheduled_event(ev, event) == BitOr(ev, event)

\* event_scheduled &= ~event
remove_scheduled_event(ev, event) == BitAndNot(ev, event)

\* return event_scheduled
get_scheduled_events(ev) == ev

(***************************************************************************)
(* sleep_routines.c: the block table behind sleep_routines.h.              *)
(***************************************************************************)
sleep_open == [em \in 0 .. (MAX_ENERGY_MODES - 1) |-> 0]

sleep_block_mode(m, EM) == [m EXCEPT !.sleep[EM] = @ + 1]

\* an unblock that does not look at the count first
sleep_unblock_mode_Unchecked(m, EM) == [m EXCEPT !.sleep[EM] = @ - 1]

sleep_unblock_mode(m, EM) ==
    IF m.sleep[EM] > 0
        THEN [m EXCEPT !.sleep[EM] = @ - 1]
        ELSE Halt(m, "sleep_unblock_mode")

RECURSIVE ScanBlocked(_, _)
ScanBlocked(tbl, em) ==
    IF em >= MAX_ENERGY_MODES - 1 THEN MAX_ENERGY_MODES - 1
    ELSE IF tbl[em] # 0 THEN em
    ELSE ScanBlocked(tbl, em + 1)

\* a scan that reports the deepest blocked level instead of the shallowest
current_block_energy_mode_Deepest(tbl) ==
    IF \A em \in 0 .. (MAX_ENERGY_MODES - 1) : tbl[em] = 0 THEN MAX_ENERGY_MODES - 1
    ELSE CHOOSE em \in 0 .. (MAX_ENERGY_MODES - 1) :
            tbl[em] # 0 /\ \A d \in (em + 1) .. (MAX_ENERGY_MODES - 1) : tbl[d] = 0

current_block_energy_mode(tbl) == ScanBlocked(tbl, 0)

\* a client blocks or unblocks a level
Call_sleep_block_mode(EM) ==
    /\ Foreground
    /\ MainFree
    /\ lowest_energy_mode[EM] < MaxBlocks
    /\ Commit(sleep_block_mode(Cur, EM))
    /\ fg' = [fg EXCEPT !.op = "block", !.em = EM]
    /\ UNCHANGED <<queueVars, cpuVars, letimer>>

Call_sleep_unblock_mode(EM) ==
    /\ Foreground
    /\ MainFree
    /\ Commit(sleep_unblock_mode(Cur, EM))
    /\ fg' = [fg EXCEPT !.op = "unblock", !.em = EM]
    /\ UNCHANGED <<queueVars, cpuVars, letimer>>

(***************************************************************************)
(* letimer.c: the LETIMER0 interrupt.                                      *)
(***************************************************************************)
\* the flags app_letimer_pwm_open asks letimer_pwm_open to enable
LetimerIEN == {"UF"}

\* events a LETIMER0 interrupt with these flags posts
LetimerEvents(int_flag) ==
    BitOr(IF "COMP0" \in int_flag THEN LETIMER0_COMP0_EVT ELSE 0,
          BitOr(IF "COMP1" \in int_flag THEN LETIMER0_COMP1_EVT ELSE 0,
                IF "UF" \in int_flag THEN LETIMER0_UF_EVT ELSE 0))

\* hardware: the counter underflows or matches a compare register
LETIMER0_Raise(f) ==
    /\ Quiescent
    /\ f \notin letimer.IF_
    /\ letimer' = [letimer EXCEPT !.IF_ = @ \cup {f}]
    /\ UNCHANGED <<fg, queueVars, event_scheduled, cpuVars, lowest_energy_mode, fatal, i2cVars, leuartVars>>

LETIMER0_IRQHandler ==
    /\ Running /\ ~primask /\ LetimerIrq
    /\ LET int_flag == letimer.IF_ \cap letimer.IEN
       IN  /\ letimer' = [letimer EXCEPT !.IF_ = @ \ int_flag]
           /\ event_scheduled' = add_scheduled_event(event_scheduled, LetimerEvents(int_flag))
           /\ sch' = IF sch.pc = "idle" THEN sch
                     ELSE [sch EXCEPT !.isr = BitOr(@, LetimerEvents(int_flag))]
    /\ fg' = Wake(fg)
    /\ UNCHANGED <<queueVars, primask, lowest_energy_mode, fatal, i2cVars, leuartVars>>

(***************************************************************************)
(* i2c.c: the read engine, and Si7021.c, its caller.                       *)
(***************************************************************************)
write == 0
read == 1
byte_num == 2
Si7021_dev_addr == 64
SI7021_TEMP_NO_HOLD == 243

\* a fresh transaction history
I2cHistStart(h, load) ==
    [h EXCEPT !.sig = <<>>, !.rx = <<>>, !.posts = 0, !.blocks = 1, !.unblocks = 0,
              !.nack = 0, !.dev = <<>>, !.n = load.bytes, !.restarts = 0,
              !.open = @ + 1, !.starts = @ + 1]

\* a start that takes no block of the engine's power level
I2C_Start_NoBlock(m, load) ==
    LET called == [m EXCEPT !.i2c_hist.calls = @ + 1]
    IN  IF m.i2c.busy
            THEN Halt(called, "I2C_Start")
            ELSE [called EXCEPT
                     !.payload = [current_state |-> "initialize",
                                  device_address |-> load.device_address,
                                  bytes |-> load.bytes,
                                  cmd |-> load.cmd],
                     !.i2c = [@ EXCEPT !.busy = TRUE, !.phase = "addrW",
                                       !.txdata = ShiftLeft(load.device_address, 1) + write],
                     !.i2c_hist = I2cHistStart(called.i2c_hist, load)]

\* a start that does not look at the peripheral's state
I2C_Start_Unchecked(m, load) ==
    [sleep_block_mode([m EXCEPT !.i2c_hist.calls = @ + 1], I2C_EM_BLOCK) EXCEPT
        !.payload = [current_state |-> "initialize",
                     device_address |-> load.device_address,
                     bytes |-> load.bytes,
                     cmd |-> load.cmd],
        !.i2c = [@ EXCEPT !.busy = TRUE, !.phase = "addrW",
                          !.txdata = ShiftLeft(load.device_address, 1) + write],
        !.i2c_hist = I2cHistStart(m.i2c_hist, load)]

I2C_Start(m, load) ==
    LET called == [m EXCEPT !.i2c_hist.calls = @ + 1]
    IN  IF m.i2c.busy
            THEN Halt(called, "I2C_Start")
            ELSE [sleep_block_mode(called, I2C_EM_BLOCK) EXCEPT
                     !.payload = [current_state |-> "initialize",
                                  device_address |-> load.device_address,
                                  bytes |-> load.bytes,
                                  cmd |-> load.cmd],
                     !.i2c = [@ EXCEPT !.busy = TRUE, !.phase = "addrW",
                                       !.txdata = ShiftLeft(load.device_address, 1) + write],
                     !.i2c_hist = I2cHistStart(called.i2c_hist, load)]

\* an acknowledge handler that takes the command's ACK for the read address's
I2C_ACK_Shortcut(m) ==
    LET s == m.payload.current_state
        n == [m EXCEPT !.i2c_hist.sig = Append(@, "ACK")]
    IN  CASE s = "initialize" ->
                [n EXCEPT !.i2c = [@ EXCEPT !.txdata = m.payload.cmd, !.phase = "cmdW"],
                          !.payload.current_state = "send_measure_cmd"]
          [] s = "send_measure_cmd" ->
                [n EXCEPT !.i2c = [@ EXCEPT
                                      !.txdata = ShiftLeft(m.payload.device_address, 1) + read,
                                      !.phase = "addrR"],
                          !.payload.current_state = "receive_data"]
          [] s = "send_read_cmd" ->
                [n EXCEPT !.payload.current_state = "receive_data"]
          [] OTHER -> Halt(n, "I2C_ACK")

I2C_ACK(m) ==
    LET s == m.payload.current_state
        n == [m EXCEPT !.i2c_hist.sig = Append(@, "ACK")]
    IN  CASE s = "initialize" ->
                [n EXCEPT !.i2c = [@ EXCEPT !.txdata = m.payload.cmd, !.phase = "cmdW"],
                          !.payload.current_state = "send_measure_cmd"]
          [] s = "send_measure_cmd" ->
                [n EXCEPT !.i2c = [@ EXCEPT
                                      !.txdata = ShiftLeft(m.payload.device_address, 1) + read,
                                      !.phase = "addrR"],
                          !.payload.current_state = "send_read_cmd"]
          [] s = "send_read_cmd" ->
                [n EXCEPT !.payload.current_state = "receive_data"]
          [] OTHER -> Halt(n, "I2C_ACK")

\* a not-acknowledge handler that gives up after one retry
I2C_NACK_GivesUp(m) ==
    LET s == m.payload.current_state
        n == [m EXCEPT !.i2c_hist.sig = Append(@, "NACK")]
    IN  IF s = "send_read_cmd" /\ m.i2c_hist.restarts < 1
            THEN [n EXCEPT !.i2c = [@ EXCEPT
                                      !.txdata = ShiftLeft(m.payload.device_address, 1) + read,
                                      !.phase = "addrR"],
                           !.i2c_hist.restarts = @ + 1]
            ELSE Halt(n, "I2C_NACK")

I2C_NACK(m) ==
    LET s == m.payload.current_state
        n == [m EXCEPT !.i2c_hist.sig = Append(@, "NACK")]
    IN  IF s = "send_read_cmd"
            THEN [n EXCEPT !.i2c = [@ EXCEPT
                                      !.txdata = ShiftLeft(m.payload.device_address, 1) + read,
                                      !.phase = "addrR"],
                           !.i2c_hist.restarts = @ + 1]
            ELSE Halt(n, "I2C_NACK")

\* a receive handler that assembles the bytes least-significant first
I2C_RXDATAV_Swapped(m) ==
    LET s == m.payload.current_state
        n == [m EXCEPT !.i2c_hist.sig = Append(@, "RXDATAV")]
        left == Dec32(m.payload.bytes)
        got == [n EXCEPT !.i2c.IF_ = @ \ {"RXDATAV"},
                         !.i2c_hist.rx = Append(@, m.i2c.rxdata),
                         !.payload.bytes = left]
    IN  IF s = "receive_data"
            THEN IF left > 0
                    THEN [got EXCEPT !.raw_data = m.i2c.rxdata,
                                     !.i2c.phase = "recv"]
                    ELSE [got EXCEPT !.raw_data = BitOr(@, ShiftLeft(m.i2c.rxdata, 8)),
                                     !.i2c.phase = "stop",
                                     !.payload.current_state = "end_process"]
            ELSE Halt(n, "I2C_RXDATAV")

I2C_RXDATAV(m) ==
    LET s == m.payload.current_state
        n == [m EXCEPT !.i2c_hist.sig = Append(@, "RXDATAV")]
        left == Dec32(m.payload.bytes)
        \* reading RXDATA empties the receive buffer
        got == [n EXCEPT !.i2c.IF_ = @ \ {"RXDATAV"},
                         !.i2c_hist.rx = Append(@, m.i2c.rxdata),
                         !.payload.bytes = left]
    IN  IF s = "receive_data"
            THEN IF left > 0
                    THEN [got EXCEPT !.raw_data = ShiftLeft(m.i2c.rxdata, 8),
                                     !.i2c.phase = "recv"]
                    ELSE [got EXCEPT !.raw_data = BitOr(@, m.i2c.rxdata),
                                     !.i2c.phase = "stop",
                                     !.payload.current_state = "end_process"]
            ELSE Halt(n, "I2C_RXDATAV")

\* a stop handler that completes the transaction whatever state it is in
I2C_MSTOP_AnyState(m) ==
    LET n == [m EXCEPT !.i2c_hist.sig = Append(@, "MSTOP")]
        posted == [n EXCEPT !.ev = add_scheduled_event(@, SI7021_READ_EVT),
                            !.i2c_hist.posts = @ + 1]
        freed == sleep_unblock_mode([posted EXCEPT !.i2c_hist.unblocks = @ + 1],
                                    I2C_EM_BLOCK)
    IN  IF freed.fatal # "" THEN freed
        ELSE [freed EXCEPT !.payload.current_state = "initialize",
                           !.i2c_hist.open = @ - 1]

\* a stop handler that keeps the power-mode block
I2C_MSTOP_KeepsBlock(m) ==
    LET s == m.payload.current_state
        n == [m EXCEPT !.i2c_hist.sig = Append(@, "MSTOP")]
    IN  IF s = "end_process"
            THEN [n EXCEPT !.ev = add_scheduled_event(@, SI7021_READ_EVT),
                           !.i2c_hist.posts = @ + 1,
                           !.payload.current_state = "initialize",
                           !.i2c_hist.open = @ - 1]
            ELSE Halt(n, "I2C_MSTOP")

I2C_MSTOP(m) ==
    LET s == m.payload.current_state
        n == [m EXCEPT !.i2c_hist.sig = Append(@, "MSTOP")]
        posted == [n EXCEPT !.ev = add_scheduled_event(@, SI7021_READ_EVT),
                            !.i2c_hist.posts = @ + 1]
        freed == sleep_unblock_mode([posted EXCEPT !.i2c_hist.unblocks = @ + 1],
                                    I2C_EM_BLOCK)
    IN  IF s = "end_process"
            THEN IF freed.fatal # "" THEN freed
                 ELSE [freed EXCEPT !.payload.current_state = "initialize",
                                    !.i2c_hist.open = @ - 1]
            ELSE Halt(n, "I2C_MSTOP")

I2C0_IRQHandler ==
    /\ Running /\ ~primask /\ I2cIrq
    /\ LET int_flag == i2c.IF_ \cap I2C_IEN
           \* I2C0->IFC = int_flag; RXDATAV is cleared by reading RXDATA only
           m0 == [Cur EXCEPT !.i2c.IF_ = @ \ (int_flag \ {"RXDATAV"})]
           \* each if-statement of the handler is skipped once an assert has halted it
           m1 == IF "ACK" \in int_flag /\ m0.fatal = "" THEN I2C_ACK(m0) ELSE m0
           m2 == IF "NACK" \in int_flag /\ m1.fatal = "" THEN I2C_NACK(m1) ELSE m1
           m3 == IF "RXDATAV" \in int_flag /\ m2.fatal = "" THEN I2C_RXDATAV(m2) ELSE m2
           m4 == IF "MSTOP" \in int_flag /\ m3.fatal = "" THEN I2C_MSTOP(m3) ELSE m3
       IN  /\ Commit(m4)
           /\ primask' = (m4.fatal # "")
    /\ fg' = Wake(fg)
    /\ UNCHANGED <<queueVars, sch, letimer>>

\* hardware: the addressed device acknowledges the byte on the bus
I2C_DevAck ==
    /\ Quiescent
    /\ i2c.phase \in {"addrW", "cmdW", "addrR"}
    /\ i2c' = [i2c EXCEPT !.IF_ = @ \cup {"ACK"},
                          !.phase = IF i2c.phase = "addrR" THEN "recv" ELSE "wait"]
    /\ UNCHANGED <<fg, queueVars, event_scheduled, cpuVars, letimer, lowest_energy_mode, fatal,
                   payload, raw_data, i2c_hist, leuartVars>>

\* hardware: the device does not acknowledge (to a read address: not ready yet)
I2C_DevNack ==
    /\ Quiescent
    /\ i2c.phase \in {"addrW", "cmdW", "addrR"}
    /\ i2c.phase = "addrR" => i2c_hist.nack < MaxNack
    /\ i2c' = [i2c EXCEPT !.IF_ = @ \cup {"NACK"}, !.phase = "wait"]
    /\ i2c_hist' = [i2c_hist EXCEPT !.nack = IF i2c.phase = "addrR" THEN @ + 1 ELSE @]
    /\ UNCHANGED <<fg, queueVars, event_scheduled, cpuVars, letimer, lowest_energy_mode, fatal,
                   payload, raw_data, leuartVars>>

I2CBytes == {1, 2}

\* hardware: a data byte from the device is in RXDATA
I2C_DevByte(b) ==
    /\ Quiescent
    /\ i2c.phase = "recv"
    /\ Len(i2c_hist.dev) < MaxDevBytes
    /\ i2c' = [i2c EXCEPT !.IF_ = @ \cup {"RXDATAV"}, !.rxdata = b, !.phase = "hold"]
    /\ i2c_hist' = [i2c_hist EXCEPT !.dev = Append(@, b)]
    /\ UNCHANGED <<fg, queueVars, event_scheduled, cpuVars, letimer, lowest_energy_mode, fatal,
                   payload, raw_data, leuartVars>>

\* hardware: the stop condition is on the bus and the peripheral is idle again
I2C_BusStop ==
    /\ Quiescent
    /\ i2c.phase = "stop"
    /\ i2c' = [i2c EXCEPT !.IF_ = @ \cup {"MSTOP"}, !.busy = FALSE, !.phase = "idle"]
    /\ UNCHANGED <<fg, queueVars, event_scheduled, cpuVars, letimer, lowest_energy_mode, fatal,
                   payload, raw_data, i2c_hist, leuartVars>>

\* hardware: the bus raises one of the engine's four signals, whatever state
\* the transaction in progress is in; a Stop leaves the peripheral idle
I2C_Signal(f, b) ==
    /\ Quiescent
    /\ i2c_hist.open = 1
    /\ Len(i2c_hist.sig) < MaxSignals
    /\ i2c' = [i2c EXCEPT !.IF_ = @ \cup {f},
                          !.rxdata = IF f = "RXDATAV" THEN b ELSE @,
                          !.busy = IF f = "MSTOP" THEN FALSE ELSE @,
                          !.phase = IF f = "MSTOP" THEN "idle" ELSE @]
    /\ UNCHANGED <<fg, queueVars, event_scheduled, cpuVars, letimer, lowest_energy_mode, fatal,
                   payload, raw_data, i2c_hist, leuartVars>>

Si7021_read(m) ==
    I2C_Start(m, [device_address |-> Si7021_dev_addr, bytes |-> byte_num,
                  cmd |-> SI7021_TEMP_NO_HOLD])

scheduled_letimer0_uf_evt(m) ==
    IF BitAnd(get_scheduled_events(m.ev), LETIMER0_UF_EVT) = 0
        THEN Halt(m, "scheduled_letimer0_uf_evt")
        ELSE Si7021_read([m EXCEPT !.ev = remove_scheduled_event(@, LETIMER0_UF_EVT)])

\* main.c: the loop finds the timer event pending and services it
Main_letimer0_uf ==
    /\ Foreground
    /\ MainFree
    /\ BitAnd(get_scheduled_events(event_scheduled), LETIMER0_UF_EVT) # 0
    /\ i2c_hist.calls < MaxStarts
    /\ Commit(scheduled_letimer0_uf_evt(Cur))
    /\ UNCHANGED <<fg, queueVars, cpuVars, letimer>>

\* a driver client starts a read of any length
Call_I2C_Start(n) ==
    /\ Foreground
    /\ MainFree
    /\ i2c_hist.calls < MaxStarts
    /\ Commit(I2C_Start(Cur, [device_address |-> Si7021_dev_addr, bytes |-> n,
                              cmd |-> SI7021_TEMP_NO_HOLD]))
    /\ UNCHANGED <<fg, queueVars, cpuVars, letimer>>

(***************************************************************************)
(* leuart.c: the LEUART0 peripheral and the transmit and receive machines. *)
(***************************************************************************)
STARTF_CHAR == 35          \* '#'
SIGF_CHAR == 63            \* '?'
RX_STR_LEN == 80           \* char received_str[80]

\* LEUART0->STATUS & LEUART_STATUS_TXIDLE
LeuartTxIdle(l) == l.txbuf = <<>> /\ l.txshift = <<>>

\* hardware: a frame reaches the receiver.  While RXBLOCK is set frames are
\* discarded, except that the start frame clears RXBLOCK (CTRL.SFUBRX) and is
\* itself loaded into the receive buffer.
LeuartReceive(l, b) ==
    LET flags == (IF b = STARTF_CHAR THEN {"STARTF"} ELSE {})
                    \cup (IF b = SIGF_CHAR /\ ~l.rxblock THEN {"SIGF"} ELSE {})
    IN  IF l.rxblock /\ b # STARTF_CHAR
            THEN l
            ELSE [l EXCEPT !.rxblock = FALSE, !.rxbuf = Append(@, b), !.IF_ = @ \cup flags]

\* lePayload.str[i]: the bytes strcpy copied, then the terminator
StrAt(str, i) == IF i < Len(str) THEN str[i + 1] ELSE 0

\* lePayload.received_str[i] = b
StoreRx(m, i, b) ==
    IF i < RX_STR_LEN
        THEN [m EXCEPT !.lePayload.received_str[i] = b]
        ELSE [m EXCEPT !.le_hist.oob = TRUE]

\* the C string held in received_str: the bytes before the first terminator
RECURSIVE CStr(_, _)
CStr(buf, i) ==
    IF i >= RX_STR_LEN \/ buf[i] = 0 THEN <<>> ELSE <<buf[i]>> \o CStr(buf, i + 1)

\* a send that takes no block of its own
leuart_start_NoBlock(m, string, string_len) ==
    [m EXCEPT
        !.lePayload = [@ EXCEPT !.txbusy = TRUE, !.state = "transmit",
                                !.count = string_len, !.index = 0, !.str = string],
        !.leuart = [@ EXCEPT !.IF_ = @ \ {"TXC"}, !.IEN = @ \cup {"TXBL"}],
        !.le_hist = [@ EXCEPT !.sends = @ + 1, !.n = string_len, !.txlog = <<>>,
                              !.wire = <<>>, !.txbl = 0, !.tx_posts = 0,
                              !.blocks = 1, !.unblocks = 0]]

leuart_start(m, string, string_len) ==
    LET blocked == sleep_block_mode(m, LEUART_EM)
    IN  [blocked EXCEPT
            !.lePayload = [@ EXCEPT !.txbusy = TRUE, !.state = "transmit",
                                    !.count = string_len, !.index = 0, !.str = string],
            !.leuart = [@ EXCEPT !.IF_ = @ \ {"TXC"}, !.IEN = @ \cup {"TXBL"}],
            !.le_hist = [@ EXCEPT !.sends = @ + 1, !.n = string_len, !.txlog = <<>>,
                                  !.wire = <<>>, !.txbl = 0, !.tx_posts = 0,
                                  !.blocks = 1, !.unblocks = 0]]

\* a buffer-empty handler that advances the cursor before it reads the byte
TXBL_Interrupt_SkipsFirst(m) ==
    LET p == m.lePayload
        n == [m EXCEPT !.le_hist.txbl = @ + 1]
        sent == IF p.count > 0
                    THEN [n EXCEPT !.lePayload.count = @ - 1,
                                   !.lePayload.index = @ + 1,
                                   !.leuart.txbuf = <<StrAt(p.str, p.index + 1)>>,
                                   !.le_hist.txlog = Append(@, StrAt(p.str, p.index + 1))]
                    ELSE n
    IN  IF p.state = "transmit"
            THEN IF sent.lePayload.count = 0
                    THEN [sent EXCEPT !.lePayload.state = "transmit_done",
                                      !.leuart.IEN = (@ \ {"TXBL"}) \cup {"TXC"}]
                    ELSE sent
            ELSE Halt(n, "TXBL_Interrupt")

\* a buffer-empty handler that reports the send done when it writes the last byte
TXBL_Interrupt_DoneOnLastWrite(m) ==
    LET p == m.lePayload
        n == [m EXCEPT !.le_hist.txbl = @ + 1]
        sent == IF p.count > 0
                    THEN [n EXCEPT !.lePayload.count = @ - 1,
                                   !.lePayload.index = @ + 1,
                                   !.leuart.txbuf = <<StrAt(p.str, p.index)>>,
                                   !.le_hist.txlog = Append(@, StrAt(p.str, p.index))]
                    ELSE n
        freed == sleep_unblock_mode([sent EXCEPT !.le_hist.unblocks = @ + 1], LEUART_EM)
    IN  IF p.state = "transmit"
            THEN IF sent.lePayload.count = 0
                    THEN [freed EXCEPT !.lePayload.state = "transmit_done",
                                       !.lePayload.txbusy = FALSE,
                                       !.ev = add_scheduled_event(@, LEUART_TX_EVT),
                                       !.le_hist.tx_posts = @ + 1,
                                       !.leuart.IEN = @ \ {"TXBL"}]
                    ELSE sent
            ELSE Halt(n, "TXBL_Interrupt")

TXBL_Interrupt(m) ==
    LET p == m.lePayload
        n == [m EXCEPT !.le_hist.txbl = @ + 1]
        \* LEUART0->TXDATA = str[index], when bytes remain
        sent == IF p.count > 0
                    THEN [n EXCEPT !.lePayload.count = @ - 1,
                                   !.lePayload.index = @ + 1,
                                   !.leuart.txbuf = <<StrAt(p.str, p.index)>>,
                                   !.le_hist.txlog = Append(@, StrAt(p.str, p.index))]
                    ELSE n
    IN  IF p.state = "transmit"
            THEN IF sent.lePayload.count = 0
                    THEN [sent EXCEPT !.lePayload.state = "transmit_done",
                                      !.leuart.IEN = (@ \ {"TXBL"}) \cup {"TXC"}]
                    ELSE sent
            ELSE Halt(n, "TXBL_Interrupt")

TXC_Interrupt(m) ==
    LET freed == sleep_unblock_mode([m EXCEPT !.le_hist.unblocks = @ + 1], LEUART_EM)
    IN  IF m.lePayload.state = "transmit_done"
            THEN IF freed.fatal # "" THEN freed
                 ELSE [freed EXCEPT !.ev = add_scheduled_event(@, LEUART_TX_EVT),
                                    !.le_hist.tx_posts = @ + 1,
                                    !.lePayload.txbusy = FALSE]
            ELSE Halt(m, "TXC_Interrupt")

\* a start-marker handler that reopens the frame whatever the state
STARTF_Interrupt_Reentrant(m) ==
    [m EXCEPT !.le_hist.startf_at = m.lePayload.rx_state,
              !.le_hist.startf_n = @ + 1,
              !.lePayload = [@ EXCEPT !.rxbusy = TRUE, !.rx_count = 0, !.rx_state = "start"],
              !.leuart.IEN = @ \cup {"RXDATAV", "SIGF"}]

STARTF_Interrupt(m) ==
    LET p == m.lePayload
        n == [m EXCEPT !.le_hist.startf_at = p.rx_state, !.le_hist.startf_n = @ + 1]
    IN  IF p.rx_state = "idle" /\ p.rxbusy = FALSE
            THEN [n EXCEPT !.lePayload = [@ EXCEPT !.rxbusy = TRUE, !.rx_count = 0,
                                                   !.rx_state = "start"],
                           !.leuart.IEN = @ \cup {"RXDATAV", "SIGF"}]
            ELSE Halt(n, "STARTF_Interrupt")

\* a byte-available handler that consumes the start marker without storing it
RXDATAV_Interrupt_DropsMarker(m) ==
    LET p == m.lePayload
    IN  CASE p.rx_state = "start" ->
                [m EXCEPT !.lePayload.rx_state = "receive", !.leuart.rxbuf = Tail(@)]
          [] p.rx_state = "receive" ->
                [StoreRx(m, p.rx_count, Head(m.leuart.rxbuf)) EXCEPT
                    !.leuart.rxbuf = Tail(@),
                    !.lePayload.rx_count = @ + 1]
          [] OTHER -> Halt(m, "RXDATAV_Interrupt")

RXDATAV_Interrupt(m) ==
    LET p == m.lePayload
    IN  CASE p.rx_state = "start" ->
                [m EXCEPT !.lePayload.rx_state = "receive"]
          [] p.rx_state = "receive" ->
                \* received_str[rx_count] = LEUART0->RXDATA; rx_count++
                [StoreRx(m, p.rx_count, Head(m.leuart.rxbuf)) EXCEPT
                    !.leuart.rxbuf = Tail(@),
                    !.lePayload.rx_count = @ + 1]
          [] OTHER -> Halt(m, "RXDATAV_Interrupt")

\* a stop-marker handler that writes the terminator over the stored marker
SIGF_Interrupt_OverMarker(m) ==
    LET p == m.lePayload
        n == [m EXCEPT !.le_hist.sigf_at = p.rx_state, !.le_hist.sigf_n = @ + 1]
    IN  IF p.rx_state = "receive"
            THEN [StoreRx(n, p.rx_count - 1, 0) EXCEPT
                    !.lePayload = [@ EXCEPT !.rx_state = "idle", !.rxbusy = FALSE],
                    !.leuart = [@ EXCEPT !.IEN = @ \ {"SIGF", "RXDATAV"},
                                         !.rxblock = TRUE],
                    !.ev = add_scheduled_event(@, LEUART_RX_EVT),
                    !.le_hist.rx_posts = @ + 1]
            ELSE Halt(n, "SIGF_Interrupt")

\* a stop-marker handler that leaves the receiver open to further input
SIGF_Interrupt_StaysOpen(m) ==
    LET p == m.lePayload
        n == [m EXCEPT !.le_hist.sigf_at = p.rx_state, !.le_hist.sigf_n = @ + 1]
    IN  IF p.rx_state = "receive"
            THEN [StoreRx(n, p.rx_count, 0) EXCEPT
                    !.lePayload = [@ EXCEPT !.rx_count = @ + 1, !.rx_state = "idle",
                                            !.rxbusy = FALSE],
                    !.ev = add_scheduled_event(@, LEUART_RX_EVT),
                    !.le_hist.rx_posts = @ + 1]
            ELSE Halt(n, "SIGF_Interrupt")

\* a stop-marker handler that closes the frame but leaves the busy flag set
SIGF_Interrupt_KeepsBusy(m) ==
    LET p == m.lePayload
        n == [m EXCEPT !.le_hist.sigf_at = p.rx_state, !.le_hist.sigf_n = @ + 1]
    IN  IF p.rx_state = "receive"
            THEN [StoreRx(n, p.rx_count, 0) EXCEPT
                    !.lePayload = [@ EXCEPT !.rx_count = @ + 1, !.rx_state = "idle"],
                    !.leuart = [@ EXCEPT !.IEN = @ \ {"SIGF", "RXDATAV"},
                                         !.rxblock = TRUE],
                    !.ev = add_scheduled_event(@, LEUART_RX_EVT),
                    !.le_hist.rx_posts = @ + 1]
            ELSE Halt(n, "SIGF_Interrupt")

SIGF_Interrupt(m) ==
    LET p == m.lePayload
        n == [m EXCEPT !.le_hist.sigf_at = p.rx_state, !.le_hist.sigf_n = @ + 1]
    IN  IF p.rx_state = "receive"
            THEN [StoreRx(n, p.rx_count, 0) EXCEPT
                    !.lePayload = [@ EXCEPT !.rx_count = @ + 1, !.rx_state = "idle",
                                            !.rxbusy = FALSE],
                    !.leuart = [@ EXCEPT !.IEN = @ \ {"SIGF", "RXDATAV"},
                                         !.rxblock = TRUE],
                    !.ev = add_scheduled_event(@, LEUART_RX_EVT),
                    !.le_hist.rx_posts = @ + 1]
            ELSE Halt(n, "SIGF_Interrupt")

LEUART0_IRQHandler ==
    /\ Running /\ ~primask /\ LeuartIrq
    /\ LET int_flag == LeuartIF \cap leuart.IEN
           \* LEUART0->IFC = int_flag; TXBL and RXDATAV follow the buffers
           m0 == [Cur EXCEPT !.leuart.IF_ = @ \ int_flag]
           m1 == IF "TXBL" \in int_flag /\ m0.fatal = "" THEN TXBL_Interrupt(m0) ELSE m0
           m2 == IF "TXC" \in int_flag /\ m1.fatal = "" THEN TXC_Interrupt(m1) ELSE m1
           m3 == IF "STARTF" \in int_flag /\ m2.fatal = "" THEN STARTF_Interrupt(m2) ELSE m2
           m4 == IF "RXDATAV" \in int_flag /\ m3.fatal = "" THEN RXDATAV_Interrupt(m3) ELSE m3
           m5 == IF "SIGF" \in int_flag /\ m4.fatal = "" THEN SIGF_Interrupt(m4) ELSE m4
       IN  /\ Commit(m5)
           /\ primask' = (m5.fatal # "")
    /\ fg' = Wake(fg)
    /\ UNCHANGED <<queueVars, sch, letimer>>

\* hardware: the transmit buffer empties into the idle shift register
LEUART_TxLoad ==
    /\ Quiescent
    /\ leuart.txbuf # <<>> /\ leuart.txshift = <<>>
    /\ leuart' = [leuart EXCEPT !.txshift = leuart.txbuf, !.txbuf = <<>>]
    /\ UNCHANGED <<fg, queueVars, event_scheduled, cpuVars, letimer, lowest_energy_mode, fatal,
                   i2cVars, lePayload, le_hist>>

\* hardware: the frame in the shift register has left; TXC is raised when the
\* transmit buffer holds nothing more; under CTRL.LOOPBK the frame comes back in
LEUART_TxShiftOut ==
    /\ Quiescent
    /\ leuart.txshift # <<>>
    /\ LET out == [leuart EXCEPT !.txshift = <<>>,
                                 !.IF_ = IF leuart.txbuf = <<>> THEN @ \cup {"TXC"} ELSE @]
       IN  leuart' = IF leuart.loopbk THEN LeuartReceive(out, Head(leuart.txshift)) ELSE out
    /\ le_hist' = [le_hist EXCEPT !.wire = Append(@, Head(leuart.txshift))]
    /\ UNCHANGED <<fg, queueVars, event_scheduled, cpuVars, letimer, lowest_energy_mode, fatal,
                   i2cVars, lePayload>>

LineBytes == {STARTF_CHAR, SIGF_CHAR, 65, 66}

\* hardware: the far end sends a frame
LEUART_RxFrame(b) ==
    /\ Quiescent
    /\ ~leuart.loopbk
    /\ Len(le_hist.line) < MaxLine
    /\ leuart' = LeuartReceive(leuart, b)
    /\ le_hist' = [le_hist EXCEPT !.line = Append(@, b)]
    /\ UNCHANGED <<fg, queueVars, event_scheduled, cpuVars, letimer, lowest_energy_mode, fatal,
                   i2cVars, lePayload>>

\* the link's receive interrupt sources as bare signals: any set of enabled
\* sources is raised at once, byte-available with a byte in the receive buffer
LEUART_Signal(F, b) ==
    /\ Quiescent
    /\ ~leuart.loopbk
    /\ Len(le_hist.line) < MaxLine
    /\ F # {} /\ F \subseteq leuart.IEN
    /\ leuart' = [leuart EXCEPT !.IF_ = @ \cup (F \ {"RXDATAV"}),
                                !.rxbuf = IF "RXDATAV" \in F THEN <<b>> ELSE @,
                                !.rxblock = FALSE]
    /\ le_hist' = [le_hist EXCEPT !.line = Append(@, IF "RXDATAV" \in F THEN b ELSE 0)]
    /\ UNCHANGED <<fg, queueVars, event_scheduled, cpuVars, letimer, lowest_energy_mode, fatal,
                   i2cVars, lePayload>>

\* strings of at most n bytes over an alphabet
RECURSIVE Strings(_, _)
Strings(alphabet, n) ==
    IF n = 0 THEN {<<>>}
    ELSE LET shorter == Strings(alphabet, n - 1)
         IN  shorter \cup {Append(s, c) : s \in shorter, c \in alphabet}

TxBytes == {65, 66}

\* a sender hands a string to the link once the previous send is over, as
\* ble_circ_pop does (it tests TXIDLE before and waits for the busy flag after)
Call_leuart_start(string) ==
    /\ Foreground
    /\ MainFree
    /\ le_hist.sends < MaxSends
    /\ LeuartTxIdle(leuart) /\ ~lePayload.txbusy
    /\ Commit(leuart_start(Cur, string, Len(string)))
    /\ UNCHANGED <<fg, queueVars, cpuVars, letimer>>

\* a client of the driver calls leuart_start whenever it likes
Client_leuart_start(string) ==
    /\ Foreground
    /\ MainFree
    /\ le_hist.sends < MaxSends
    /\ Commit(leuart_start(Cur, string, Len(string)))
    /\ UNCHANGED <<fg, queueVars, cpuVars, letimer>>

\* leuart_rx_test hands its test string to the link, once, in loopback
LoopBytes == {STARTF_CHAR, SIGF_CHAR, 65}

Call_rx_test_start(string) ==
    /\ Foreground
    /\ MainFree
    /\ leuart.loopbk
    /\ le_hist.sends = 0
    /\ Commit(leuart_start(Cur, string, Len(string)))
    /\ UNCHANGED <<fg, queueVars, cpuVars, letimer>>

(***************************************************************************)
(* ble.c: the outbound queue.  ble_cbuf.size is a 32-bit unsigned word; it *)
(* is kept here as the same word read as a two's complement number, so a   *)
(* negative value v stands for the word 2^32 + v.                          *)
(***************************************************************************)
\* static uint8_t ble_circ_space(void): the low byte of the counter
ble_circ_space(q) == q.size % 256

update_circ_wrtindex(q, update_by) ==
    [q EXCEPT !.write_ptr = (@ + update_by) % 64]

\* a read cursor that runs off the end of the buffer's index range
update_circ_readindex_NoWrap(q, update_by) ==
    [q EXCEPT !.read_ptr = IF @ + update_by < CSIZE THEN @ + update_by ELSE @]

update_circ_readindex(q, update_by) ==
    [q EXCEPT !.read_ptr = (@ + update_by) % 64]

\* if(ble_cbuf.size < length), an unsigned comparison
ble_circ_push_rejects(q, length) == q.size >= 0 /\ q.size < length

\* the header and the while loop of ble_circ_push: write k of 0 .. length puts
\* the length, then string[k - 1], in the slot the write cursor has reached,
\* and a slot written more than once keeps the last byte written
WriteLoop(q, string) ==
    LET length == Len(string)
        slot(k) == update_circ_wrtindex(q, k).write_ptr
        byte(k) == IF k = 0 THEN length % 256 ELSE string[k]
        last(i) == CHOOSE k \in 0 .. length :
                      /\ slot(k) = i
                      /\ \A j \in (k + 1) .. length : slot(j) # i
    IN  [update_circ_wrtindex(q, length + 1) EXCEPT
            !.cbuf = [i \in 0 .. (CSIZE - 1) |->
                        IF \E k \in 0 .. length : slot(k) = i THEN byte(last(i)) ELSE q.cbuf[i]]]

\* ble_circ_push once its test has let the packet through
ble_circ_push(q, string) ==
    LET body == WriteLoop(q, string)
    IN  [body EXCEPT !.size = ble_circ_space(body) - (Len(string) + 1)]

\* ble_circ_pop from the length prefix to the end of the copy: read k of
\* 1 .. length takes the byte in the slot the read cursor has reached
ble_circ_pop_read(q) ==
    LET length == q.cbuf[q.read_ptr]
    IN  [q |-> update_circ_readindex(q, length + 1),
         string_array |-> [k \in 1 .. length |-> q.cbuf[update_circ_readindex(q, k).read_ptr]]]

\* ble_circ_pop's two early returns
ble_circ_pop_busy(l, q) == ~LeuartTxIdle(l) \/ q.size = CSIZE

\* ble_cbuf.size = ble_circ_space() + length + 1
ble_circ_pop_release(q, length) == [q EXCEPT !.size = ble_circ_space(q) + length + 1]

\* test_struct.result_str[i] = string_array[i], for i < length
StoreResult(result_str, string_array) ==
    [i \in 0 .. (CSIZE - 1) |->
        IF i < Len(string_array) THEN string_array[i + 1] ELSE result_str[i]]

\* strcpy: the bytes before the first terminator
RECURSIVE StrCpy(_)
StrCpy(string) ==
    IF string = <<>> \/ Head(string) = 0 THEN <<>>
    ELSE <<Head(string)>> \o StrCpy(Tail(string))

\* the capacity the packets still queued leave free
RECURSIVE Room(_)
Room(fifo) == IF fifo = <<>> THEN CSIZE ELSE Room(Tail(fifo)) - (Len(Head(fifo)) + 1)

\* circular_buff_test fills its three strings with ramps from 1, 20 and 35
PushBase(k) == <<1, 20, 35>>[(k % 3) + 1]
Ramp(base, length) == [j \in 1 .. length |-> base + j - 1]

\* the payload lengths of the test, and those around the capacity
QueueLens == {0, 5, 25, 50, 63, 64, 65}

Call_ble_circ_push(length) ==
    /\ Foreground
    /\ MainFree
    /\ ble_hist.pushes < MaxPushes
    /\ LET string == Ramp(PushBase(ble_hist.pushes), length)
           called == [ble_hist EXCEPT !.pushes = @ + 1, !.arg = length]
       IN  IF ble_circ_push_rejects(ble_cbuf, length)
               THEN /\ fatal' = "ble_circ_push"
                    /\ ble_hist' = called
                    /\ UNCHANGED ble_cbuf
               ELSE /\ ble_cbuf' = ble_circ_push(ble_cbuf, string)
                    /\ ble_hist' = [called EXCEPT
                            !.fifo = Append(@, string),
                            !.fit = @ /\ length + 1 <= Room(ble_hist.fifo)]
                    /\ UNCHANGED fatal
    /\ UNCHANGED <<fg, event_scheduled, cpuVars, letimer, lowest_energy_mode,
                   i2cVars, leuartVars>>

\* ble_circ_pop(test) up to its return, or up to its wait for the transmitter,
\* called with the machine at m, the queue at q, its history at h and the
\* foreground at f
ble_circ_pop_from(test, m, q, h, f) ==
    LET st == ble_circ_pop_read(q)
        length == Len(st.string_array)
        called == [h EXCEPT !.pops = @ + 1]
        taken == [called EXCEPT !.fifo = IF @ = <<>> THEN @ ELSE Tail(@)]
    IN  IF ble_circ_pop_busy(m.leuart, q)
            THEN /\ fg' = [f EXCEPT !.ret = TRUE]
                 /\ ble_cbuf' = q
                 /\ ble_hist' = called
                 /\ Commit(m)
            ELSE IF test
                THEN /\ ble_cbuf' = ble_circ_pop_release(st.q, length)
                     /\ fg' = [f EXCEPT !.ret = FALSE, !.length = length,
                                  !.result_str = StoreResult(@, st.string_array)]
                     /\ ble_hist' = [taken EXCEPT !.oob = @ \/ length > CSIZE]
                     /\ Commit(m)
                ELSE /\ ble_cbuf' = st.q
                     /\ fg' = [f EXCEPT !.pc = "pop_wait", !.length = length]
                     /\ ble_hist' = [taken EXCEPT !.handed = Append(@, st.string_array)]
                     /\ Commit(leuart_start(m, StrCpy(st.string_array), length))

\* the same called where the foreground stands
ble_circ_pop(test, m, q, h) == ble_circ_pop_from(test, m, q, h, fg)

Call_ble_circ_pop(test) ==
    /\ Foreground
    /\ MainFree
    /\ ble_hist.pops < MaxPops
    /\ ble_circ_pop(test, Cur, ble_cbuf, ble_hist)
    /\ UNCHANGED <<cpuVars, letimer>>

\* ble_circ_pop(false) from the end of while(leuart_tx_busy(LEUART0)) on
Return_ble_circ_pop ==
    /\ Foreground
    /\ sch.pc = "idle" /\ fg.pc = "pop_wait"
    /\ ~lePayload.txbusy
    /\ ble_cbuf' = ble_circ_pop_release(ble_cbuf, fg.length)
    /\ fg' = [fg EXCEPT !.pc = "run", !.ret = FALSE]
    /\ UNCHANGED <<ble_hist, event_scheduled, cpuVars, letimer, lowest_energy_mode, fatal,
                   i2cVars, leuartVars>>

\* ble_write: ble_circ_push(string); ble_circ_pop(false), with the machine at m
\* and the foreground at f
ble_write_from(m, length, f) ==
    LET string == Ramp(PushBase(ble_hist.pushes), length)
        called == [ble_hist EXCEPT !.pushes = @ + 1, !.arg = length]
        pushed == [called EXCEPT !.fifo = Append(@, string),
                                 !.fit = @ /\ length + 1 <= Room(ble_hist.fifo)]
    IN  IF ble_circ_push_rejects(ble_cbuf, length)
            THEN /\ Commit(Halt(m, "ble_circ_push"))
                 /\ ble_hist' = called
                 /\ fg' = f
                 /\ UNCHANGED ble_cbuf
            ELSE ble_circ_pop_from(FALSE, m, ble_circ_push(ble_cbuf, string), pushed, f)

ble_write(m, length) == ble_write_from(m, length, fg)

Call_ble_write(length) ==
    /\ Foreground
    /\ MainFree
    /\ ble_hist.pushes < MaxPushes
    /\ ble_write(Cur, length)
    /\ UNCHANGED <<cpuVars, letimer>>

\* leuart.c: memcpy(destination, lePayload.received_str, strlen(...)) into a
\* destination the caller has filled with zeros
rx_str_copy(p) == CStr(p.received_str, 0)

\* app.c: the event is removed, raw_data is converted and the receive buffer
\* is copied; i2c_hist.read and le_hist.copied are the handler's locals
Si7021_temp_done_evt(m) ==
    [m EXCEPT !.ev = remove_scheduled_event(@, SI7021_READ_EVT),
              !.i2c_hist.read = m.raw_data,
              !.le_hist.copied = rx_str_copy(m.lePayload)]

\* app.c: the loop finds the read-done event pending and services it; the
\* temperature message, never empty, is written
Main_si7021_read_done(length) ==
    /\ Foreground
    /\ MainFree
    /\ BitAnd(get_scheduled_events(event_scheduled), SI7021_READ_EVT) # 0
    /\ ble_hist.pushes < MaxPushes
    /\ ble_write(Si7021_temp_done_evt(Cur), length)
    /\ UNCHANGED <<cpuVars, letimer>>

\* app.c: the loop finds the tx-done event pending and services it; the timer
\* that letimer_start(LETIMER0, true) starts is running already
Main_leuart0_tx_done ==
    /\ Foreground
    /\ MainFree
    /\ BitAnd(get_scheduled_events(event_scheduled), LEUART_TX_EVT) # 0
    /\ ble_circ_pop(FALSE, [Cur EXCEPT !.ev = remove_scheduled_event(@, LEUART_TX_EVT)],
                    ble_cbuf, ble_hist)
    /\ UNCHANGED <<cpuVars, letimer>>

\* main.c: if (!get_scheduled_events()) finds nothing pending
Main_check_pending ==
    /\ Foreground
    /\ MainFree
    /\ get_scheduled_events(event_scheduled) = 0
    /\ fg' = [fg EXCEPT !.pc = "sleep_call"]
    /\ UNCHANGED <<queueVars, event_scheduled, cpuVars, letimer, lowest_energy_mode, fatal,
                   i2cVars, leuartVars>>

\* sleep_routines.c: the levels enter_sleep may put the processor in, the
\* deepest permitted one or a shallower one; EM0 is the running processor
enter_sleep(tbl) == EM0 .. current_block_energy_mode(tbl)

\* main.c: enter_sleep(), some time after the test; the processor stays in the
\* level until the next interrupt
Main_enter_sleep(level) ==
    /\ Foreground
    /\ sch.pc = "idle" /\ fg.pc = "sleep_call"
    /\ level \in enter_sleep(lowest_energy_mode)
    /\ fg' = [fg EXCEPT !.pc = IF level = EM0 THEN "run" ELSE "asleep", !.level = level]
    /\ UNCHANGED <<queueVars, event_scheduled, cpuVars, letimer, lowest_energy_mode, fatal,
                   i2cVars, leuartVars>>

(***************************************************************************)
(* letimer.c: starting and stopping the timer, and main's setup.  STATUS   *)
(* is LETIMER0->STATUS, a register whose only bit is RUNNING; EM is the    *)
(* level LETIMER_EM names in letimer.h.  letimer.held counts the blocks    *)
(* letimer.c has taken and not released.                                   *)
(***************************************************************************)
LETIMER_STATUS_RUNNING == 1

\* a start that takes its block when the timer is running
letimer_start_BlocksRunning(m, STATUS, EM, enable) ==
    LET blocked == IF enable /\ BitAnd(STATUS, LETIMER_STATUS_RUNNING) # 0
                       THEN sleep_block_mode(m, EM) ELSE m
    IN  IF ~enable /\ BitAnd(STATUS, LETIMER_STATUS_RUNNING) # 0
            THEN sleep_unblock_mode(blocked, EM) ELSE blocked

letimer_start(m, STATUS, EM, enable) ==
    LET \* if(enable && (letimer->STATUS & ~LETIMER_STATUS_RUNNING))
        blocked == IF enable /\ BitAndNot(STATUS, LETIMER_STATUS_RUNNING) # 0
                       THEN sleep_block_mode(m, EM) ELSE m
    IN  \* if(!enable && (letimer->STATUS & LETIMER_STATUS_RUNNING))
        IF ~enable /\ BitAnd(STATUS, LETIMER_STATUS_RUNNING) # 0
            THEN sleep_unblock_mode(blocked, EM) ELSE blocked

\* letimer->CMD = LETIMER_CMD_START and the assertion that the timer runs,
\* letimer_start(letimer, false), LETIMER_Init with enable false, and the
\* block taken at the end if the timer runs
letimer_pwm_open(m, EM) ==
    LET stopped == letimer_start(m, LETIMER_STATUS_RUNNING, EM, FALSE)
        STATUS == 0
    IN  IF BitAnd(STATUS, LETIMER_STATUS_RUNNING) # 0 /\ stopped.fatal = ""
            THEN sleep_block_mode(stopped, EM) ELSE stopped

\* main.c, app.c: a reset with the peripherals at rest: scheduler_open,
\* sleep_open, then app_peripheral_setup, which opens the timer, posts the
\* boot event and opens the link
Main_setup(EM) ==
    /\ Foreground
    /\ MainFree
    /\ i2c_hist.open = 0 /\ ~lePayload.txbusy /\ ~lePayload.rxbusy
    /\ LET reset == [Cur EXCEPT !.ev = 0, !.sleep = sleep_open]
           timer == letimer_pwm_open(reset, EM)
       IN  Commit(IF timer.fatal # "" THEN timer
                  ELSE [sleep_block_mode(timer, LEUART_EM) EXCEPT
                            !.ev = add_scheduled_event(@, BOOT_UP_EVT)])
    /\ fg' = [fg EXCEPT !.op = "setup", !.em = EM]
    /\ letimer' = [IF_ |-> {}, IEN |-> LetimerIEN, STATUS |-> 0,
                   held |-> letimer_pwm_open([Cur EXCEPT !.sleep = sleep_open], EM).sleep[EM]]
    /\ UNCHANGED <<queueVars, cpuVars>>

(***************************************************************************)
(* A foreground call of the scheduler, instruction by instruction, so that *)
(* interrupts can fall between any two of them.                            *)
(***************************************************************************)
SchedEvents == {LETIMER0_UF_EVT, SI7021_READ_EVT, BOOT_UP_EVT}

\* pc: where the call stands; start: the pending set at entry; isr: the bits
\* interrupt handlers posted during the call; held: an interrupt stayed pending
\* through the masked section
SchIdle ==
    [pc |-> "idle", op |-> "none", e |-> 0, tmp |-> 0, start |-> 0, isr |-> 0,
     held |-> FALSE, ret |-> 0]

Sched_call(op, e) ==
    /\ Foreground
    /\ MainFree
    /\ sch' = [SchIdle EXCEPT !.pc = "entry", !.op = op, !.e = e, !.start = event_scheduled]
    /\ UNCHANGED <<fg, queueVars, event_scheduled, primask, letimer, lowest_energy_mode, fatal,
                   i2cVars, leuartVars>>

\* a read-modify-write that leaves interrupts enabled
Sched_disable_irq_Unmasked ==
    /\ Foreground
    /\ sch.pc = "entry" /\ sch.op \in {"add", "remove"}
    /\ primask' = primask
    /\ sch' = [sch EXCEPT !.pc = "masked"]
    /\ UNCHANGED <<fg, queueVars, event_scheduled, letimer, lowest_energy_mode, fatal, i2cVars, leuartVars>>

\* __disable_irq()
Sched_disable_irq ==
    /\ Foreground
    /\ sch.pc = "entry" /\ sch.op \in {"add", "remove"}
    /\ primask' = TRUE
    /\ sch' = [sch EXCEPT !.pc = "masked"]
    /\ UNCHANGED <<fg, queueVars, event_scheduled, letimer, lowest_energy_mode, fatal, i2cVars, leuartVars>>

\* the load of event_scheduled |= event or event_scheduled &= ~event
Sched_load ==
    /\ Foreground
    /\ sch.pc = "masked"
    /\ sch' = [sch EXCEPT !.pc = "loaded", !.tmp = event_scheduled]
    /\ UNCHANGED <<fg, queueVars, event_scheduled, primask, letimer, lowest_energy_mode, fatal,
                   i2cVars, leuartVars>>

\* the store of the same statement
Sched_store ==
    /\ Foreground
    /\ sch.pc = "loaded"
    /\ event_scheduled' = IF sch.op = "add" THEN add_scheduled_event(sch.tmp, sch.e)
                                            ELSE remove_scheduled_event(sch.tmp, sch.e)
    /\ sch' = [sch EXCEPT !.pc = "stored"]
    /\ UNCHANGED <<fg, queueVars, primask, letimer, lowest_energy_mode, fatal, i2cVars, leuartVars>>

\* __enable_irq()
Sched_enable_irq ==
    /\ Foreground
    /\ sch.pc = "stored"
    /\ primask' = FALSE
    /\ sch' = [sch EXCEPT !.pc = "done", !.held = LetimerIrq]
    /\ UNCHANGED <<fg, queueVars, event_scheduled, letimer, lowest_energy_mode, fatal, i2cVars, leuartVars>>

Sched_get ==
    /\ Foreground
    /\ sch.pc = "entry" /\ sch.op = "get"
    /\ sch' = [sch EXCEPT !.pc = "done", !.ret = get_scheduled_events(event_scheduled)]
    /\ UNCHANGED <<fg, queueVars, event_scheduled, primask, letimer, lowest_energy_mode, fatal,
                   i2cVars, leuartVars>>

Sched_return ==
    /\ Foreground
    /\ sch.pc = "done"
    /\ sch' = SchIdle
    /\ UNCHANGED <<fg, queueVars, event_scheduled, primask, letimer, lowest_energy_mode, fatal,
                   i2cVars, leuartVars>>

(***************************************************************************)
(* Initial state: the firmware at rest after app_peripheral_setup and the  *)
(* boot event, no event pending, the timer running, both links idle.       *)
(***************************************************************************)
InitCpu ==
    /\ event_scheduled = 0
    /\ primask = FALSE
    /\ sch = SchIdle
    /\ letimer = [IF_ |-> {}, IEN |-> LetimerIEN, STATUS |-> LETIMER_STATUS_RUNNING, held |-> 0]
    /\ fatal = ""

\* leuart_open holds one block of LEUART_EM from then on
InitSleep == lowest_energy_mode = [sleep_open EXCEPT ![LEUART_EM] = 1]

InitI2c ==
    /\ payload = [current_state |-> "initialize", device_address |-> 0, bytes |-> 0, cmd |-> 0]
    /\ raw_data = 0
    /\ i2c = [busy |-> FALSE, phase |-> "idle", IF_ |-> {}, rxdata |-> 0, txdata |-> 0]
    /\ i2c_hist = [sig |-> <<>>, rx |-> <<>>, posts |-> 0, blocks |-> 0, unblocks |-> 0,
                   nack |-> 0, dev |-> <<>>, n |-> 0, restarts |-> 0, open |-> 0,
                   starts |-> 0, calls |-> 0, read |-> 0, isr |-> ""]

InitLeuart(loopbk) ==
    /\ lePayload = [state |-> "begin", count |-> 0, str |-> <<>>, index |-> 0,
                    txbusy |-> FALSE, rx_state |-> "idle",
                    received_str |-> [i \in 0 .. (RX_STR_LEN - 1) |-> 0],
                    rx_count |-> 0, rxbusy |-> FALSE]
    /\ leuart = [IEN |-> {"STARTF"}, IF_ |-> {}, txbuf |-> <<>>, txshift |-> <<>>,
                 rxbuf |-> <<>>, rxblock |-> TRUE, loopbk |-> loopbk]
    /\ le_hist = [line |-> <<>>, sends |-> 0, n |-> 0, txlog |-> <<>>, wire |-> <<>>,
                  txbl |-> 0, tx_posts |-> 0, rx_posts |-> 0, blocks |-> 0,
                  unblocks |-> 0, startf_at |-> "", startf_n |-> 0, sigf_at |-> "",
                  sigf_n |-> 0, oob |-> FALSE, copied |-> <<>>]

\* ble_circ_init, and main about to run its loop
InitBle ==
    /\ ble_cbuf = [cbuf |-> [i \in 0 .. (CSIZE - 1) |-> 0], size |-> CSIZE,
                   read_ptr |-> 0, write_ptr |-> 0]
    /\ ble_hist = [fifo |-> <<>>, pushes |-> 0, pops |-> 0, arg |-> 0, fit |-> TRUE,
                   handed |-> <<>>, oob |-> FALSE]
    /\ fg = FgRun

Init == InitCpu /\ InitSleep /\ InitI2c /\ InitLeuart(FALSE) /\ InitBle

InitLoop == InitCpu /\ InitSleep /\ InitI2c /\ InitLeuart(TRUE) /\ InitBle

(***************************************************************************)
(* Specifications.                                                         *)
(***************************************************************************)
\* the scheduler under foreground calls and timer interrupts
NextSched ==
    \/ \E op \in {"add", "remove", "get"}, e \in SchedEvents : Sched_call(op, e)
    \/ Sched_disable_irq
    \/ Sched_load
    \/ Sched_store
    \/ Sched_enable_irq
    \/ Sched_get
    \/ Sched_return
    \/ \E f \in {"COMP0", "COMP1", "UF"} : LETIMER0_Raise(f)
    \/ LETIMER0_IRQHandler

SpecSched == Init /\ [][NextSched]_vars

\* the bus engine with its device, the timer event and its handler
NextI2C ==
    \/ LETIMER0_Raise("UF")
    \/ LETIMER0_IRQHandler
    \/ Main_letimer0_uf
    \/ \E n \in 0 .. MaxBytes : Call_I2C_Start(n)
    \/ I2C0_IRQHandler
    \/ I2C_DevAck
    \/ I2C_DevNack
    \/ \E b \in I2CBytes : I2C_DevByte(b)
    \/ I2C_BusStop

SpecI2C == Init /\ [][NextI2C]_vars

\* the link transmitter
NextTx ==
    \/ \E s \in Strings(TxBytes, MaxTxLen) : Call_leuart_start(s)
    \/ LEUART0_IRQHandler
    \/ LEUART_TxLoad
    \/ LEUART_TxShiftOut

SpecTx == Init /\ [][NextTx]_vars

\* the link transmitter under a client that does not poll the busy flag
NextTxAny ==
    \/ \E s \in Strings(TxBytes, MaxTxLen) : Client_leuart_start(s)
    \/ LEUART0_IRQHandler
    \/ LEUART_TxLoad
    \/ LEUART_TxShiftOut

SpecTxAny == Init /\ [][NextTxAny]_vars

\* the queue driven as circular_buff_test drives it: pushes and test-mode pops
NextQueue ==
    \/ \E length \in QueueLens : Call_ble_circ_push(length)
    \/ Call_ble_circ_pop(TRUE)

SpecQueue == Init /\ [][NextQueue]_vars

\* the queue and the link together: packets are pushed and popped while a
\* second sender uses the link directly
WriteLens == {0, 1, 2}
DirectStrs == {<<>>, <<65>>, <<65, 66>>}

NextBle ==
    \/ \E length \in WriteLens : Call_ble_circ_push(length)
    \/ \E test \in BOOLEAN : Call_ble_circ_pop(test)
    \/ Return_ble_circ_pop
    \/ \E s \in DirectStrs : Call_leuart_start(s)
    \/ LEUART0_IRQHandler
    \/ LEUART_TxLoad
    \/ LEUART_TxShiftOut

SpecBle == Init /\ [][NextBle]_vars

\* the firmware sending: messages are written to the queue while a second
\* sender may hold the link, and the main loop services tx-done events.  The
\* interrupt handler, the peripheral and the main loop always get their turn.
NextDrain ==
    \/ \E length \in WriteLens : Call_ble_write(length)
    \/ \E s \in DirectStrs : Call_leuart_start(s)
    \/ Main_leuart0_tx_done
    \/ Return_ble_circ_pop
    \/ LEUART0_IRQHandler
    \/ LEUART_TxLoad
    \/ LEUART_TxShiftOut

SpecDrain ==
    /\ Init /\ [][NextDrain]_vars
    /\ WF_vars(Main_leuart0_tx_done)
    /\ WF_vars(Return_ble_circ_pop)
    /\ WF_vars(LEUART0_IRQHandler)
    /\ WF_vars(LEUART_TxLoad)
    /\ WF_vars(LEUART_TxShiftOut)

\* the block table under a client that blocks and unblocks any level, with
\* the main loop going to sleep and the timer waking it
NextSleep ==
    \/ \E EM \in 0 .. (MAX_ENERGY_MODES - 1) : Call_sleep_block_mode(EM)
    \/ \E EM \in 0 .. (MAX_ENERGY_MODES - 1) : Call_sleep_unblock_mode(EM)
    \/ Main_check_pending
    \/ \E level \in 0 .. (MAX_ENERGY_MODES - 1) : Main_enter_sleep(level)
    \/ LETIMER0_Raise("UF")
    \/ LETIMER0_IRQHandler

SpecSleep == Init /\ [][NextSleep]_vars

\* the firmware in steady state: the timer starts a temperature read, the read
\* ends in a message written to the queue, and the main loop sleeps when it
\* finds nothing pending; a second sender may use the link directly.  The
\* sensor acknowledges and answers; what it answers, and what the messages
\* say, does not matter to sleep.
MainBytes == {1}
MainLens == {1}
MainStrs == {<<65>>}

NextMain ==
    \/ LETIMER0_Raise("UF")
    \/ LETIMER0_IRQHandler
    \/ Main_letimer0_uf
    \/ I2C0_IRQHandler
    \/ I2C_DevAck
    \/ \E b \in MainBytes : I2C_DevByte(b)
    \/ I2C_BusStop
    \/ \E length \in MainLens : Main_si7021_read_done(length)
    \/ Return_ble_circ_pop
    \/ Main_leuart0_tx_done
    \/ \E s \in MainStrs : Call_leuart_start(s)
    \/ LEUART0_IRQHandler
    \/ LEUART_TxLoad
    \/ LEUART_TxShiftOut
    \/ Main_check_pending
    \/ \E level \in 0 .. (MAX_ENERGY_MODES - 1) : Main_enter_sleep(level)

SpecMain == Init /\ [][NextMain]_vars

\* hardware: the timer underflows; its period is far longer than a read, so
\* the underflow finds the bus at rest and the last underflow serviced
LETIMER0_Underflow ==
    /\ i2c_hist.open = 0
    /\ BitAnd(event_scheduled, BitOr(LETIMER0_UF_EVT, SI7021_READ_EVT)) = 0
    /\ i2c_hist.calls < MaxStarts
    /\ LETIMER0_Raise("UF")

\* the firmware in steady state with the far end sending frames: every
\* interrupt handler, every peripheral and every statement of the main loop
\* gets its turn; only the timer and the far end are free to stay silent
ServiceBytes == {STARTF_CHAR, SIGF_CHAR}

NextService ==
    \/ LETIMER0_Underflow
    \/ LETIMER0_IRQHandler
    \/ Main_letimer0_uf
    \/ I2C0_IRQHandler
    \/ I2C_DevAck
    \/ \E b \in MainBytes : I2C_DevByte(b)
    \/ I2C_BusStop
    \/ \E length \in MainLens : Main_si7021_read_done(length)
    \/ Return_ble_circ_pop
    \/ Main_leuart0_tx_done
    \/ \E b \in ServiceBytes : LEUART_RxFrame(b)
    \/ LEUART0_IRQHandler
    \/ LEUART_TxLoad
    \/ LEUART_TxShiftOut
    \/ Main_check_pending
    \/ \E level \in 0 .. (MAX_ENERGY_MODES - 1) : Main_enter_sleep(level)

SpecService ==
    /\ Init /\ [][NextService]_vars
    /\ WF_vars(LETIMER0_IRQHandler)
    /\ WF_vars(Main_letimer0_uf)
    /\ WF_vars(I2C0_IRQHandler)
    /\ WF_vars(I2C_DevAck)
    /\ WF_vars(\E b \in MainBytes : I2C_DevByte(b))
    /\ WF_vars(I2C_BusStop)
    /\ WF_vars(\E length \in MainLens : Main_si7021_read_done(length))
    /\ WF_vars(Return_ble_circ_pop)
    /\ WF_vars(Main_leuart0_tx_done)
    /\ WF_vars(LEUART0_IRQHandler)
    /\ WF_vars(LEUART_TxLoad)
    /\ WF_vars(LEUART_TxShiftOut)
    /\ WF_vars(Main_check_pending)
    /\ WF_vars(\E level \in 0 .. (MAX_ENERGY_MODES - 1) : Main_enter_sleep(level))

\* the firmware reading temperatures while the far end sends frames with a
\* data byte in them
CopyBytes == {STARTF_CHAR, SIGF_CHAR, 65}

NextCopy ==
    \/ LETIMER0_Underflow
    \/ LETIMER0_IRQHandler
    \/ Main_letimer0_uf
    \/ I2C0_IRQHandler
    \/ I2C_DevAck
    \/ \E b \in MainBytes : I2C_DevByte(b)
    \/ I2C_BusStop
    \/ \E length \in MainLens : Main_si7021_read_done(length)
    \/ Return_ble_circ_pop
    \/ Main_leuart0_tx_done
    \/ \E b \in CopyBytes : LEUART_RxFrame(b)
    \/ LEUART0_IRQHandler
    \/ LEUART_TxLoad
    \/ LEUART_TxShiftOut

SpecCopy == Init /\ [][NextCopy]_vars

\* the firmware in steady state, and a reset that runs main's setup again
NextPower ==
    \/ NextMain
    \/ \E EM \in 0 .. (MAX_ENERGY_MODES - 1) : Main_setup(EM)

SpecPower == Init /\ [][NextPower]_vars

\* the bus engine under any sequence of signals
NextI2CSig ==
    \/ \E n \in 1 .. MaxBytes : Call_I2C_Start(n)
    \/ I2C0_IRQHandler
    \/ \E f \in I2C_IEN, b \in MainBytes : I2C_Signal(f, b)

SpecI2CSig == Init /\ [][NextI2CSig]_vars

(***************************************************************************)
(* main.c: the loop statement by statement.  fg.at counts the statements   *)
(* of one pass: 0 the test before enter_sleep, then the six tests of the   *)
(* event bits in the order in which main makes them.                       *)
(***************************************************************************)
\* the test at statement k found its bit clear
LoopSkip(k) ==
    /\ fg' = [fg EXCEPT !.at = (k + 1) % 7]
    /\ UNCHANGED <<queueVars, event_scheduled, cpuVars, letimer, lowest_energy_mode, fatal,
                   i2cVars, leuartVars>>

\* if (!get_scheduled_events()) enter_sleep();
Main_loop_sleep ==
    /\ Foreground /\ MainFree /\ fg.at = 0
    /\ fg' = [fg EXCEPT !.at = 1, !.seen = get_scheduled_events(event_scheduled), !.ran = <<>>,
                        !.pc = IF get_scheduled_events(event_scheduled) = 0
                                   THEN "sleep_call" ELSE @]
    /\ UNCHANGED <<queueVars, event_scheduled, cpuVars, letimer, lowest_energy_mode, fatal,
                   i2cVars, leuartVars>>

\* if (get_scheduled_events() & LETIMER0_UF_EVT) scheduled_letimer0_uf_evt();
Main_loop_uf ==
    /\ Foreground /\ MainFree /\ fg.at = 1
    /\ IF BitAnd(get_scheduled_events(event_scheduled), LETIMER0_UF_EVT) # 0
           THEN /\ i2c_hist.calls < MaxStarts
                /\ Commit(scheduled_letimer0_uf_evt(Cur))
                /\ fg' = [fg EXCEPT !.at = (1 + 1) % 7, !.ran = Append(@, LETIMER0_UF_EVT)]
                /\ UNCHANGED <<queueVars, cpuVars, letimer>>
           ELSE LoopSkip(1)

\* the tests of LETIMER0_COMP0_EVT and LETIMER0_COMP1_EVT; their handlers
\* remove the event and stop at EFM_ASSERT(false)
Main_loop_comp(k, e) ==
    /\ Foreground /\ MainFree /\ fg.at = k
    /\ IF BitAnd(get_scheduled_events(event_scheduled), e) # 0
           THEN /\ Commit(Halt([Cur EXCEPT !.ev = remove_scheduled_event(@, e)],
                               "scheduled_letimer0_comp_evt"))
                /\ fg' = [fg EXCEPT !.at = (k + 1) % 7, !.ran = Append(@, e)]
                /\ UNCHANGED <<queueVars, cpuVars, letimer>>
           ELSE LoopSkip(k)

\* if (get_scheduled_events() & SI7021_READ_EVT) Si7021_temp_done_evt();
Main_loop_read_done(length) ==
    /\ Foreground /\ MainFree /\ fg.at = 4
    /\ IF BitAnd(get_scheduled_events(event_scheduled), SI7021_READ_EVT) # 0
           THEN /\ ble_hist.pushes < MaxPushes
                /\ ble_write_from(Si7021_temp_done_evt(Cur), length,
                                  [fg EXCEPT !.at = (4 + 1) % 7, !.ran = Append(@, SI7021_READ_EVT)])
                /\ UNCHANGED <<cpuVars, letimer>>
           ELSE LoopSkip(4)

\* the test of BOOT_UP_EVT, a bit that is clear once the boot handler has run
Main_loop_boot ==
    /\ Foreground /\ MainFree /\ fg.at = 5
    /\ BitAnd(get_scheduled_events(event_scheduled), BOOT_UP_EVT) = 0
    /\ LoopSkip(5)

\* if (get_scheduled_events() & LEUART_TX_EVT) scheduled_leuart0_tx_done_evt();
Main_loop_tx_done ==
    /\ Foreground /\ MainFree /\ fg.at = 6
    /\ IF BitAnd(get_scheduled_events(event_scheduled), LEUART_TX_EVT) # 0
           THEN /\ ble_circ_pop_from(FALSE,
                        [Cur EXCEPT !.ev = remove_scheduled_event(@, LEUART_TX_EVT)],
                        ble_cbuf, ble_hist, [fg EXCEPT !.at = (6 + 1) % 7, !.ran = Append(@, LEUART_TX_EVT)])
                /\ UNCHANGED <<cpuVars, letimer>>
           ELSE LoopSkip(6)

\* the far end sends one empty message, start marker and stop marker
LEUART_RxScanFrame ==
    /\ Len(le_hist.line) < 2
    /\ LEUART_RxFrame(<<STARTF_CHAR, SIGF_CHAR>>[Len(le_hist.line) + 1])

\* the firmware in steady state with main's loop taken statement by statement
NextScan ==
    \/ LETIMER0_Raise("UF")
    \/ LETIMER0_IRQHandler
    \/ I2C0_IRQHandler
    \/ I2C_DevAck
    \/ \E b \in MainBytes : I2C_DevByte(b)
    \/ I2C_BusStop
    \/ LEUART_RxScanFrame
    \/ LEUART0_IRQHandler
    \/ LEUART_TxLoad
    \/ LEUART_TxShiftOut
    \/ Return_ble_circ_pop
    \/ Main_loop_sleep
    \/ \E level \in 0 .. (MAX_ENERGY_MODES - 1) : Main_enter_sleep(level)
    \/ Main_loop_uf
    \/ Main_loop_comp(2, LETIMER0_COMP0_EVT)
    \/ Main_loop_comp(3, LETIMER0_COMP1_EVT)
    \/ \E length \in MainLens : Main_loop_read_done(length)
    \/ Main_loop_boot
    \/ Main_loop_tx_done

SpecScan == Init /\ [][NextScan]_vars

(***************************************************************************)
(* ble.c: ble_circ_push statement by statement, each update of a cursor    *)
(* or of the counter as a load and a store, so that an interrupt can fall  *)
(* between the two wherever the code leaves interrupts enabled.            *)
(***************************************************************************)
\* the call up to ble_cbuf.cbuf[ble_cbuf.write_ptr] = length
Call_ble_circ_push_steps(length) ==
    /\ Foreground
    /\ MainFree
    /\ ble_hist.pushes < MaxPushes
    /\ LET string == Ramp(PushBase(ble_hist.pushes), length)
           called == [ble_hist EXCEPT !.pushes = @ + 1, !.arg = length]
       IN  IF ble_circ_push_rejects(ble_cbuf, length)
               THEN /\ fatal' = "ble_circ_push"
                    /\ ble_hist' = called
                    /\ UNCHANGED <<fg, ble_cbuf>>
               ELSE /\ ble_cbuf' = [ble_cbuf EXCEPT !.cbuf[ble_cbuf.write_ptr] = length % 256]
                    /\ ble_hist' = [called EXCEPT
                            !.fifo = Append(@, string),
                            !.fit = @ /\ length + 1 <= Room(ble_hist.fifo)]
                    /\ fg' = [fg EXCEPT !.pc = "wrt_load", !.string = string, !.index = 0]
                    /\ UNCHANGED fatal
    /\ UNCHANGED <<event_scheduled, cpuVars, letimer, lowest_energy_mode, i2cVars, leuartVars>>

\* the statements that follow, one at a time
ble_circ_push_step ==
    /\ Foreground
    /\ sch.pc = "idle"
    /\ CASE fg.pc = "wrt_load" ->
                \* update_circ_wrtindex reads write_ptr
                /\ fg' = [fg EXCEPT !.pc = "wrt_store", !.tmp = ble_cbuf.write_ptr]
                /\ UNCHANGED <<ble_cbuf, primask>>
         [] fg.pc = "wrt_store" ->
                \* and writes it; then the loop test, and either the next slot
                \* or __disable_irq()
                LET moved == [ble_cbuf EXCEPT !.write_ptr = (fg.tmp + 1) % 64]
                IN  IF fg.index = Len(fg.string)
                        THEN /\ ble_cbuf' = moved
                             /\ primask' = TRUE
                             /\ fg' = [fg EXCEPT !.pc = "size_load"]
                        ELSE /\ ble_cbuf' = [moved EXCEPT
                                    !.cbuf[moved.write_ptr] = fg.string[fg.index + 1]]
                             /\ fg' = [fg EXCEPT !.pc = "wrt_load", !.index = @ + 1]
                             /\ UNCHANGED primask
         [] fg.pc = "size_load" ->
                \* ble_circ_space() reads the counter
                /\ fg' = [fg EXCEPT !.pc = "size_store", !.tmp = ble_circ_space(ble_cbuf)]
                /\ UNCHANGED <<ble_cbuf, primask>>
         [] fg.pc = "size_store" ->
                \* ble_cbuf.size = ... - (length + 1); __enable_irq()
                /\ ble_cbuf' = [ble_cbuf EXCEPT !.size = fg.tmp - (Len(fg.string) + 1)]
                /\ primask' = FALSE
                /\ fg' = [fg EXCEPT !.pc = "run"]
         [] OTHER -> FALSE
    /\ UNCHANGED <<ble_hist, event_scheduled, sch, letimer, lowest_energy_mode, fatal,
                   i2cVars, leuartVars>>

\* the scheduler's calls and the push of an empty and of a two-byte string,
\* statement by statement, with the timer interrupting wherever interrupts
\* are enabled
NextShared ==
    \/ NextSched
    \/ \E length \in {0, 2} : Call_ble_circ_push_steps(length)
    \/ ble_circ_push_step

SpecShared == Init /\ [][NextShared]_vars

(***************************************************************************)
(* I2C0_IRQHandler answering the Stop, statement by statement, with the    *)
(* __disable_irq() and __enable_irq() of the handler and of the functions  *)
(* it calls.  i2c_hist.isr is where the handler stands.  No priority is    *)
(* configured for any interrupt, so a handler is not preempted by another  *)
(* one, whatever PRIMASK is.                                               *)
(***************************************************************************)
I2C0_IRQHandler_steps ==
    /\ Running
    /\ CASE i2c_hist.isr = "" ->
                \* __disable_irq(); int_flag = IF & IEN; IFC = int_flag
                /\ ~primask /\ "MSTOP" \in i2c.IF_
                /\ primask' = TRUE
                /\ i2c' = [i2c EXCEPT !.IF_ = @ \ ((i2c.IF_ \cap I2C_IEN) \ {"RXDATAV"})]
                /\ i2c_hist' = [i2c_hist EXCEPT !.isr = "entered",
                                                !.sig = Append(@, "MSTOP")]
                /\ fg' = Wake(fg)
                /\ UNCHANGED <<event_scheduled, lowest_energy_mode, fatal, payload>>
         [] i2c_hist.isr = "entered" ->
                \* I2C_MSTOP: add_scheduled_event(SI7021_READ_EVT), which ends
                \* with __enable_irq(); any other state is fatal
                /\ IF payload.current_state = "end_process"
                       THEN /\ event_scheduled' = add_scheduled_event(event_scheduled,
                                                                      SI7021_READ_EVT)
                            /\ primask' = FALSE
                            /\ i2c_hist' = [i2c_hist EXCEPT !.isr = "posted", !.posts = @ + 1]
                            /\ UNCHANGED fatal
                       ELSE /\ fatal' = "I2C_MSTOP"
                            /\ UNCHANGED <<event_scheduled, primask, i2c_hist>>
                /\ UNCHANGED <<fg, i2c, lowest_energy_mode, payload>>
         [] i2c_hist.isr = "posted" ->
                \* sleep_unblock_mode(I2C_EM_BLOCK); current_state = initialize;
                \* and the handler's __enable_irq()
                LET freed == sleep_unblock_mode(Cur, I2C_EM_BLOCK)
                IN  /\ lowest_energy_mode' = freed.sleep
                    /\ fatal' = freed.fatal
                    /\ payload' = IF freed.fatal = ""
                                      THEN [payload EXCEPT !.current_state = "initialize"]
                                      ELSE payload
                    /\ i2c_hist' = IF freed.fatal = ""
                                       THEN [i2c_hist EXCEPT !.isr = "", !.unblocks = @ + 1,
                                                             !.open = @ - 1]
                                       ELSE i2c_hist
                    /\ primask' = FALSE
                    /\ UNCHANGED <<fg, i2c, event_scheduled>>
         [] OTHER -> FALSE
    /\ UNCHANGED <<queueVars, sch, letimer, raw_data, leuartVars>>

\* the bus engine reading the sensor, the handler's answer to the Stop taken
\* statement by statement; every other handler waits for the one that runs
NextNested ==
    \/ I2C0_IRQHandler_steps
    \/ LETIMER0_Raise("UF")
    \/ i2c_hist.isr = "" /\ LETIMER0_IRQHandler
    \/ i2c_hist.isr = "" /\ Main_letimer0_uf
    \/ i2c_hist.isr = "" /\ "MSTOP" \notin i2c.IF_ /\ I2C0_IRQHandler
    \/ i2c_hist.isr = "" /\ I2C_DevAck
    \/ i2c_hist.isr = "" /\ \E b \in I2CBytes : I2C_DevByte(b)
    \/ i2c_hist.isr = "" /\ I2C_BusStop
    \/ i2c_hist.isr = "" /\ \E length \in MainLens : Main_si7021_read_done(length)
    \/ i2c_hist.isr = "" /\ Return_ble_circ_pop
    \/ i2c_hist.isr = "" /\ LEUART0_IRQHandler
    \/ i2c_hist.isr = "" /\ LEUART_TxLoad
    \/ i2c_hist.isr = "" /\ LEUART_TxShiftOut

SpecNested == Init /\ [][NextNested]_vars

\* hardware: the far end sends one long message: the start marker, then data
\* bytes, then at any point the stop marker
LEUART_RxLongFrame(b) ==
    /\ Quiescent
    /\ ~leuart.loopbk
    /\ Len(le_hist.line) < MaxFrame
    /\ (le_hist.line = <<>>) <=> (b = STARTF_CHAR)
    /\ \A i \in 1 .. Len(le_hist.line) : le_hist.line[i] # SIGF_CHAR
    /\ leuart' = LeuartReceive(leuart, b)
    /\ le_hist' = [le_hist EXCEPT !.line = Append(@, b)]
    /\ UNCHANGED <<fg, queueVars, event_scheduled, cpuVars, letimer, lowest_energy_mode, fatal,
                   i2cVars, lePayload>>

\* the link receiver fed one message longer than its buffer
NextLong ==
    \/ \E b \in {STARTF_CHAR, 65, SIGF_CHAR} : LEUART_RxLongFrame(b)
    \/ LEUART0_IRQHandler

SpecLong == Init /\ [][NextLong]_vars

\* app.c: scheduled_leuart0_tx_done_evt with its call of letimer_start(LETIMER0,
\* true) on the timer's registers: the block, if the guard lets it through,
\* LETIMER_Enable, and then the event's removal and the pop
Main_leuart0_tx_done_timer(EM) ==
    /\ Foreground
    /\ MainFree
    /\ BitAnd(get_scheduled_events(event_scheduled), LEUART_TX_EVT) # 0
    /\ LET started == letimer_start(Cur, letimer.STATUS, EM, TRUE)
       IN  /\ ble_circ_pop_from(FALSE,
                   [started EXCEPT !.ev = remove_scheduled_event(@, LEUART_TX_EVT)],
                   ble_cbuf, ble_hist, [fg EXCEPT !.op = "letimer_start", !.em = EM])
           /\ letimer' = [letimer EXCEPT
                             !.STATUS = LETIMER_STATUS_RUNNING,
                             !.held = @ + started.sleep[EM] - lowest_energy_mode[EM]]
    /\ UNCHANGED cpuVars

\* the firmware in steady state with the timer's starts in the tx-done
\* handler, and a reset that runs main's setup again
NextTimer ==
    \/ LETIMER0_Raise("UF")
    \/ LETIMER0_IRQHandler
    \/ Main_letimer0_uf
    \/ I2C0_IRQHandler
    \/ I2C_DevAck
    \/ \E b \in MainBytes : I2C_DevByte(b)
    \/ I2C_BusStop
    \/ \E length \in MainLens : Main_si7021_read_done(length)
    \/ Return_ble_circ_pop
    \/ \E EM \in 0 .. (MAX_ENERGY_MODES - 1) : Main_leuart0_tx_done_timer(EM)
    \/ LEUART0_IRQHandler
    \/ LEUART_TxLoad
    \/ LEUART_TxShiftOut
    \/ \E EM \in 0 .. (MAX_ENERGY_MODES - 1) : Main_setup(EM)

SpecTimer == Init /\ [][NextTimer]_vars

\* the link receiver fed frames by the far end
NextRx ==
    \/ \E b \in LineBytes : LEUART_RxFrame(b)
    \/ LEUART0_IRQHandler

SpecRx == Init /\ [][NextRx]_vars

\* the link receiver fed its interrupt signals directly
NextRxSig ==
    \/ \E F \in SUBSET {"STARTF", "RXDATAV", "SIGF"}, b \in TxBytes : LEUART_Signal(F, b)
    \/ LEUART0_IRQHandler

SpecRxSig == Init /\ [][NextRxSig]_vars

\* the receive self-test: one string sent with the transmitter looped back
NextLoop ==
    \/ \E s \in Strings(LoopBytes, MaxLine) : Call_rx_test_start(s)
    \/ LEUART0_IRQHandler
    \/ LEUART_TxLoad
    \/ LEUART_TxShiftOut

SpecLoop == InitLoop /\ [][NextLoop]_vars

(***************************************************************************)
(* Properties of the scheduler.                                            *)
(***************************************************************************)
\* bit e (a power of two) of the set x
Bit(x, e) == (x \div e) % 2 = 1

EventBits ==
    {LETIMER0_COMP0_EVT, LETIMER0_COMP1_EVT, LETIMER0_UF_EVT, SI7021_READ_EVT,
     BOOT_UP_EVT, LEUART_TX_EVT, LEUART_RX_EVT}

\* a foreground call has finished its work and no interrupt posted meanwhile
SchedDone(op) == sch.pc = "done" /\ sch.op = op /\ sch.isr = 0

\* C1: for every event bit e and every prior pending set, the set read back
\* after add(e) has bit e set and after remove(e) has it clear, every other
\* bit is as before the call, get leaves the set alone and returns it, and
\* adding a bit that is already pending leaves the set exactly as it was.
C1_SchedulerFunctional ==
    /\ SchedDone("add") =>
          /\ Bit(get_scheduled_events(event_scheduled), sch.e)
          /\ \A f \in EventBits \ {sch.e} : Bit(event_scheduled, f) <=> Bit(sch.start, f)
          /\ Bit(sch.start, sch.e) => event_scheduled = sch.start
    /\ SchedDone("remove") =>
          /\ ~Bit(get_scheduled_events(event_scheduled), sch.e)
          /\ \A f \in EventBits \ {sch.e} : Bit(event_scheduled, f) <=> Bit(sch.start, f)
    /\ SchedDone("get") =>
          /\ event_scheduled = sch.start
          /\ sch.ret = sch.start

\* an event already pending, among others, has been added again
C1_Witness ==
    /\ SchedDone("add")
    /\ Bit(sch.start, sch.e)
    /\ sch.start # sch.e
    /\ event_scheduled = sch.start

\* C2: when an interrupt handler posts e1 at any point during a foreground
\* add(e2) or remove(e2), e1 # e2, then once the call has done its work bit e1
\* is set, bit e2 is what the call made it and no other bit has changed.
C2_SchedulerAtomic ==
    (/\ sch.pc = "done"
     /\ sch.op \in {"add", "remove"}
     /\ sch.isr # 0
     /\ BitAnd(sch.isr, sch.e) = 0)
    => /\ BitAnd(event_scheduled, sch.isr) = sch.isr
       /\ Bit(event_scheduled, sch.e) <=> (sch.op = "add")
       /\ \A f \in EventBits \ {sch.e} :
             BitAnd(sch.isr, f) = 0 => (Bit(event_scheduled, f) <=> Bit(sch.start, f))

\* the timer interrupt arrived inside the masked section of a remove, was
\* held, and has posted its event before the call returned
C2_Witness ==
    /\ sch.pc = "done"
    /\ sch.op = "remove"
    /\ sch.held
    /\ sch.isr = LETIMER0_UF_EVT
    /\ sch.e = BOOT_UP_EVT
    /\ Bit(sch.start, BOOT_UP_EVT)
    /\ ~Bit(sch.start, LETIMER0_UF_EVT)
    /\ Bit(event_scheduled, LETIMER0_UF_EVT)

(***************************************************************************)
(* Properties of the bus engine.                                           *)
(***************************************************************************)
\* the value of a byte sequence read most-significant byte first
RECURSIVE BigEndian(_)
BigEndian(bs) ==
    IF bs = <<>> THEN 0 ELSE 256 * BigEndian(SubSeq(bs, 1, Len(bs) - 1)) + bs[Len(bs)]

\* a transaction has been started and its terminal Stop has been handled
I2cDone == fatal = "" /\ i2c_hist.starts > 0 /\ i2c_hist.open = 0

\* the device run of the claim for a read of n bytes: one NACK of the read
\* address, then an ACK, then n data bytes and the stop
I2cRun(n) ==
    /\ I2cDone
    /\ i2c_hist.n = n
    /\ i2c_hist.nack = 1
    /\ Len(i2c_hist.dev) = n

\* C3, as amended: for the two-byte read, a device run that ACKs the address
\* and the command, NACKs the first read-address attempt, ACKs the second and
\* delivers b1 b2 and a stop leaves the engine back in Init with b1 in the
\* high byte and b2 in the low byte of the destination, and exactly one
\* bus-read-complete event posted.
C3_TwoBytesMsbFirst ==
    I2cRun(byte_num) =>
        /\ payload.current_state = "initialize"
        /\ raw_data = BigEndian(i2c_hist.dev)
        /\ i2c_hist.rx = i2c_hist.dev
        /\ i2c_hist.restarts = 1
        /\ i2c_hist.posts = 1
        /\ Bit(event_scheduled, SI7021_READ_EVT)

C3_Witness ==
    /\ I2cRun(byte_num)
    /\ i2c_hist.dev = <<1, 2>>
    /\ raw_data = 258
    /\ i2c_hist.sig = <<"ACK", "ACK", "NACK", "ACK", "RXDATAV", "RXDATAV", "MSTOP">>

\* C3, as claimed: the same for every N >= 1.
C3_AnyLengthMsbFirst ==
    \A n \in 1 .. MaxBytes :
        I2cRun(n) =>
            /\ payload.current_state = "initialize"
            /\ raw_data = BigEndian(i2c_hist.dev)
            /\ i2c_hist.posts = 1

\* C4: a call of I2C_Start while a started transaction has not had its
\* terminal Stop handled ends in the fatal state and leaves the stored
\* transaction, the destination and the block table as they were; and no
\* reachable state has more than one transaction live.
C4_StartWhileLiveIsFatal ==
    /\ [](i2c_hist.open <= 1)
    /\ [][(i2c_hist'.calls # i2c_hist.calls /\ i2c_hist.open > 0) =>
            /\ fatal' = "I2C_Start"
            /\ payload' = payload
            /\ raw_data' = raw_data
            /\ lowest_energy_mode' = lowest_energy_mode
            /\ i2c_hist'.open = i2c_hist.open]_vars

\* the timer event was serviced while the device was still NACKing the read
\* address of the transaction before
C4_Witness ==
    /\ fatal = "I2C_Start"
    /\ i2c_hist.calls = 2
    /\ i2c_hist.open = 1
    /\ i2c_hist.nack >= 1
    /\ payload.current_state = "send_read_cmd"
    /\ ~Bit(event_scheduled, LETIMER0_UF_EVT)

\* this step handled a Stop in Complete
I2cStopStep ==
    /\ payload.current_state = "end_process"
    /\ Len(i2c_hist'.sig) = Len(i2c_hist.sig) + 1
    /\ i2c_hist'.sig[Len(i2c_hist'.sig)] = "MSTOP"

\* C5: the block count of the engine's power level goes up by one in the step
\* that starts a transaction, down by one in the step that handles Stop in
\* Complete and changes in no other step; it is at least 1 while a
\* transaction is live; and the completion event is posted, and the engine
\* returns to Init, in that Stop step and in no other.
C5_BlockedFromStartToStop ==
    /\ [](fatal = "" /\ i2c_hist.open = 1 =>
            /\ lowest_energy_mode[I2C_EM_BLOCK] >= 1
            /\ i2c_hist.posts = 0)
    /\ [][LET started == i2c_hist'.starts # i2c_hist.starts
               blocks == lowest_energy_mode[I2C_EM_BLOCK]
               blocks_after == lowest_energy_mode'[I2C_EM_BLOCK]
           IN  /\ started => blocks_after = blocks + 1
               /\ I2cStopStep =>
                     /\ blocks_after = blocks - 1
                     /\ i2c_hist'.posts = i2c_hist.posts + 1
                     /\ Bit(event_scheduled', SI7021_READ_EVT)
                     /\ payload'.current_state = "initialize"
               /\ ~started /\ ~I2cStopStep =>
                     /\ blocks_after = blocks
                     /\ started \/ i2c_hist'.posts = i2c_hist.posts
                     /\ payload.current_state # "initialize" =>
                           payload'.current_state # "initialize"]_vars

\* a second transaction has run from start to its terminal Stop
C5_Witness ==
    /\ I2cDone
    /\ i2c_hist.starts = 2
    /\ i2c_hist.posts = 1
    /\ lowest_energy_mode[I2C_EM_BLOCK] = 0
    /\ payload.current_state = "initialize"

(***************************************************************************)
(* Properties of the link receiver.                                        *)
(***************************************************************************)
\* the C string in the accumulation buffer
Received == CStr(lePayload.received_str, 0)

\* the line carried START d1..dk STOP and nothing else
IsFrame(bs) ==
    /\ Len(bs) >= 2
    /\ bs[1] = STARTF_CHAR
    /\ bs[Len(bs)] = SIGF_CHAR
    /\ \A i \in 2 .. (Len(bs) - 1) : bs[i] \notin {STARTF_CHAR, SIGF_CHAR}

\* the receiver was fed one frame from Idle and has handled all of it
FrameFed == Quiescent /\ IsFrame(le_hist.line)

Places(str, c) == {i \in 1 .. Len(str) : str[i] = c}

\* the string holds one frame, as the self-test's string does: text free of
\* markers, one start marker, and a stop marker somewhere after it
HasOneFrame(str) ==
    /\ Cardinality(Places(str, STARTF_CHAR)) = 1
    /\ Places(str, SIGF_CHAR) # {}
    /\ \A i \in Places(str, STARTF_CHAR), j \in Places(str, SIGF_CHAR) : i < j

\* the frame of such a string, start marker through first stop marker after it
FrameOf(str) ==
    LET i == CHOOSE k \in Places(str, STARTF_CHAR) : TRUE
        j == CHOOSE k \in Places(str, SIGF_CHAR) :
                 k > i /\ \A l \in Places(str, SIGF_CHAR) : l > i => k <= l
    IN  SubSeq(str, i, j)

\* leuart_rx_test is past both of its busy waits
LoopbackDone ==
    /\ Quiescent
    /\ leuart.loopbk
    /\ le_hist.sends = 1
    /\ ~lePayload.txbusy /\ ~lePayload.rxbusy

SigfStep == le_hist'.sigf_n # le_hist.sigf_n
StartfStep == le_hist'.startf_n # le_hist.startf_n

\* what handling a stop marker is to do
FrameClosed ==
    /\ fatal' = ""
    /\ lePayload'.received_str[lePayload'.rx_count - 1] = 0
    /\ leuart'.IEN \cap {"RXDATAV", "SIGF"} = {}
    /\ leuart'.rxblock
    /\ le_hist'.rx_posts = le_hist.rx_posts + 1
    /\ Bit(event_scheduled', LEUART_RX_EVT)
    /\ lePayload'.rx_state = "idle"
    /\ ~lePayload'.rxbusy

\* C8, as amended: a stop-marker signal handled in Receiving terminates the
\* accumulation buffer, disables the byte-available and stop-marker sources,
\* re-arms input blocking, posts exactly one rx-done event and returns the
\* receiver to Idle with busy false; handled in FrameOpened it ends in the
\* fatal assertion state.
C8_StopMarkerClosesInReceiving ==
    [][SigfStep =>
          /\ le_hist'.sigf_at = "receive" => FrameClosed
          /\ le_hist'.sigf_at = "start" =>
                /\ fatal' = "SIGF_Interrupt"
                /\ le_hist'.rx_posts = le_hist.rx_posts]_vars

C8_Witness ==
    /\ fatal = ""
    /\ le_hist.sigf_n = 1
    /\ le_hist.sigf_at = "receive"
    /\ le_hist.rx_posts = 1
    /\ lePayload.rx_state = "idle"
    /\ leuart.rxblock

\* C8, as claimed: the same in FrameOpened as in Receiving.
C8_StopMarkerClosesAnyOpenFrame ==
    [][(SigfStep /\ le_hist'.sigf_at \in {"start", "receive"}) => FrameClosed]_vars

\* C9: a start-marker signal handled in Idle with busy false sets busy,
\* resets the cursor to 0, enables the byte-available and stop-marker sources
\* and moves to FrameOpened; handled while a frame is open (FrameOpened or
\* Receiving) it ends in the fatal assertion state.
C9_StartMarkerOpensOrHalts ==
    [][StartfStep =>
          /\ (le_hist'.startf_at = "idle" /\ ~lePayload.rxbusy) =>
                /\ fatal' = ""
                /\ lePayload'.rxbusy
                /\ lePayload'.rx_count = 0
                /\ {"RXDATAV", "SIGF"} \subseteq leuart'.IEN
                /\ lePayload'.rx_state = "start"
          /\ le_hist'.startf_at \in {"start", "receive"} =>
                /\ fatal' = "STARTF_Interrupt"
                /\ lePayload' = lePayload]_vars

\* a second start marker was handled in FrameOpened, after a frame had
\* already been received and a new one opened
C9_Witness ==
    /\ fatal = "STARTF_Interrupt"
    /\ le_hist.startf_at = "start"
    /\ le_hist.startf_n = 3
    /\ le_hist.rx_posts = 1
    /\ lePayload.rxbusy

(***************************************************************************)
(* Properties of the link transmitter.                                     *)
(***************************************************************************)
\* the power-mode blocks the link holds: one from leuart_open, one per open send
LeuartBlocks == lowest_energy_mode[LEUART_EM]

\* C10: during a send of N >= 1 bytes the bytes written to the data register
\* are bytes 0 .. index-1 of the session buffer in order, one per buffer-empty
\* signal handled; after the Nth the buffer-empty source is off and the
\* transmission-complete source on; and when transmission-complete has been
\* handled busy is clear, exactly one tx-done event has been posted and
\* exactly the block taken at the send has been released.
C10_TransmitInOrderThenComplete ==
    (fatal = "" /\ le_hist.sends >= 1 /\ le_hist.n >= 1) =>
        /\ le_hist.txlog = SubSeq(lePayload.str, 1, lePayload.index)
        /\ le_hist.txbl = lePayload.index
        /\ lePayload.index + lePayload.count = le_hist.n
        /\ \E k \in 0 .. Len(le_hist.txlog) : le_hist.wire = SubSeq(le_hist.txlog, 1, k)
        /\ lePayload.state = "transmit" =>
              /\ lePayload.txbusy /\ lePayload.count > 0
              /\ "TXBL" \in leuart.IEN
              /\ le_hist.tx_posts = 0 /\ le_hist.unblocks = 0
              /\ LeuartBlocks = 2
        /\ (lePayload.state = "transmit_done" /\ lePayload.txbusy) =>
              /\ lePayload.index = le_hist.n
              /\ "TXBL" \notin leuart.IEN /\ "TXC" \in leuart.IEN
              /\ le_hist.tx_posts = 0 /\ le_hist.unblocks = 0
              /\ LeuartBlocks = 2
        /\ ~lePayload.txbusy =>
              /\ lePayload.state = "transmit_done"
              /\ le_hist.wire = lePayload.str
              /\ le_hist.tx_posts = 1 /\ le_hist.unblocks = 1
              /\ Bit(event_scheduled, LEUART_TX_EVT)
              /\ LeuartBlocks = 1

\* a second send of three bytes has completed
C10_Witness ==
    /\ fatal = ""
    /\ le_hist.sends = 2
    /\ ~lePayload.txbusy
    /\ lePayload.str = <<65, 66, 65>>
    /\ le_hist.wire = <<65, 66, 65>>
    /\ le_hist.txbl = 3
    /\ le_hist.tx_posts = 1

\* C11: a call of leuart_start while the transmit busy flag is set leaves the
\* session in progress (buffer, cursor, remaining count, state) and the block
\* table as they were.
C11_StartWhileBusyRejected ==
    [][(le_hist'.sends # le_hist.sends /\ lePayload.txbusy) =>
          /\ lePayload' = lePayload
          /\ lowest_energy_mode' = lowest_energy_mode]_vars

(***************************************************************************)
(* Properties of the outbound queue.                                       *)
(***************************************************************************)
PushStep == ble_hist'.pushes # ble_hist.pushes
PopStep == ble_hist'.pops # ble_hist.pops

\* C12: a push whose length plus one exceeds the capacity the queued packets
\* leave free halts with the fatal assertion and leaves the buffer, both
\* cursors and the counter as they were.
C12_OversizePushRejected ==
    [][(PushStep /\ ble_hist'.arg + 1 > Room(ble_hist.fifo)) =>
          /\ fatal' = "ble_circ_push"
          /\ ble_cbuf' = ble_cbuf]_vars

\* C13: between queue operations of a run that has not halted, the counter is
\* 64 minus the sum of length + 1 over the queued packets and lies in 0..64,
\* the cursors lie in 0..63, and write - read = 64 - counter modulo 64.
C13_CounterAndCursors ==
    (Running /\ fg.pc = "run") =>
        /\ ble_cbuf.size = Room(ble_hist.fifo)
        /\ ble_cbuf.size \in 0 .. CSIZE
        /\ ble_cbuf.read_ptr \in 0 .. (CSIZE - 1)
        /\ ble_cbuf.write_ptr \in 0 .. (CSIZE - 1)
        /\ (ble_cbuf.write_ptr - ble_cbuf.read_ptr) % CSIZE = (CSIZE - ble_cbuf.size) % CSIZE

\* the same, for runs in which every accepted push fitted
C13_HoldsWhilePushesFit == ble_hist.fit => C13_CounterAndCursors

\* the string the last test-mode pop left in test_struct.result_str
Popped == [j \in 1 .. fg.length |-> fg.result_str[j - 1]]

PopWasNoOp ==
    /\ fg'.ret = TRUE /\ fg'.pc = "run"
    /\ ble_cbuf' = ble_cbuf
    /\ lePayload' = lePayload /\ leuart' = leuart
    /\ le_hist'.sends = le_hist.sends
    /\ lowest_energy_mode' = lowest_energy_mode

C15_PopWhileShiftingIsNoOp ==
    [][(PopStep /\ (~LeuartTxIdle(leuart) \/ (lePayload.txbusy /\ le_hist.n >= 1)))
          => PopWasNoOp]_vars

QueueEmpty == ble_hist.fifo = <<>> /\ ble_cbuf.size = CSIZE /\ fg.pc = "run"
Drained == QueueEmpty /\ ~Bit(event_scheduled, LEUART_TX_EVT)

\* the packets handed to the link so far are the first packets written, in order
HandedInOrder ==
    /\ \A k \in 1 .. Len(ble_hist.handed) :
          ble_hist.handed[k] = Ramp(PushBase(k - 1), Len(ble_hist.handed[k]))
    /\ \A k \in 1 .. Len(ble_hist.fifo) :
          ble_hist.fifo[k] = Ramp(PushBase(Len(ble_hist.handed) + k - 1), Len(ble_hist.fifo[k]))

NoEmptyPacket ==
    \A k \in 1 .. Len(ble_hist.handed \o ble_hist.fifo) :
        (ble_hist.handed \o ble_hist.fifo)[k] # <<>>
C16_NonEmptyPacketsDrain == ([]NoEmptyPacket) => <>[]Drained
\* one at a time and in order: a packet is handed over only when the link is
\* through with the packet before it, and it is the oldest one queued
C16_HandedOneAtATime ==
    [][Len(ble_hist'.handed) # Len(ble_hist.handed) =>
          /\ ~lePayload.txbusy \/ le_hist.n = 0
          /\ HandedInOrder']_vars

(***************************************************************************)
(* Properties of the block table and of sleep.                             *)
(***************************************************************************)
Levels == 0 .. (MAX_ENERGY_MODES - 1)
BlockedLevels == {em \in Levels : lowest_energy_mode[em] # 0}

\* C17: as long as no unblock has underflowed, current_block_energy_mode is
\* the shallowest level with a nonzero count, or EM4 when every count is zero.
C17_ShallowestBlockedOrDeepest ==
    Running =>
        current_block_energy_mode(lowest_energy_mode) =
            IF BlockedLevels = {} THEN EM4
            ELSE CHOOSE em \in BlockedLevels : \A d \in BlockedLevels : em <= d

\* two levels blocked after blocks and an unblock, the shallower one reported
C17_Witness ==
    /\ Running /\ fg.op = "unblock"
    /\ BlockedLevels = {EM2, EM4}
    /\ current_block_energy_mode(lowest_energy_mode) = EM2

SleepCallStep == lowest_energy_mode' # lowest_energy_mode \/ fatal' # fatal

\* C18: a block raises the count of its level by one, an unblock of a level
\* with a positive count lowers it by one, neither touches another level; an
\* unblock of a level with count zero is fatal; and no count is ever negative.
C18_CountsMoveByOne ==
    /\ [](\A em \in Levels : lowest_energy_mode[em] >= 0)
    /\ [][SleepCallStep =>
            LET EM == fg'.em
                count == lowest_energy_mode[EM]
            IN  CASE fg'.op = "block" ->
                        /\ lowest_energy_mode' = [lowest_energy_mode EXCEPT ![EM] = count + 1]
                        /\ fatal' = fatal
                  [] fg'.op = "unblock" /\ count > 0 ->
                        /\ lowest_energy_mode' = [lowest_energy_mode EXCEPT ![EM] = count - 1]
                        /\ fatal' = fatal
                  [] OTHER ->
                        /\ lowest_energy_mode' = lowest_energy_mode
                        /\ fatal' = "sleep_unblock_mode"]_vars

\* the link's level unblocked to zero, another level blocked twice, and then
\* an unblock of a level at zero
C18_Witness ==
    /\ fatal = "sleep_unblock_mode" /\ fg.op = "unblock"
    /\ lowest_energy_mode[fg.em] = 0
    /\ lowest_energy_mode[LEUART_EM] = 0
    /\ \E em \in Levels : lowest_energy_mode[em] >= 2

Asleep == fg.pc = "asleep"
SleepEntry == fg.pc = "sleep_call" /\ fg'.pc # "sleep_call"
BusLive == i2c_hist.open = 1
LinkLive == lePayload.txbusy

PostedEvents == {LETIMER0_UF_EVT, SI7021_READ_EVT, LEUART_RX_EVT, LEUART_TX_EVT}

\* an event bit that is set in a running firmware
Pending(e) == Running /\ Bit(event_scheduled, e)

\* C21: every event bit, once set, is eventually cleared by the main loop,
\* and the main loop comes back to its sleep-entry call again and again,
\* unless a fatal assertion has halted the firmware.
C21_EveryEventServiced ==
    /\ \A e \in PostedEvents : Pending(e) ~> ~Pending(e)
    /\ []<>(fg.pc = "sleep_call" \/ ~Running)

\* C21, the part the code keeps: the timer, bus and transmitter events are
\* each cleared after they are set, unless the processor went to sleep on them
C21_HandledEventsServiced ==
    \A e \in PostedEvents \ {LEUART_RX_EVT} : Pending(e) ~> (~Pending(e) \/ Asleep)

\* C21, finitely: no step of the firmware clears the rx-done bit
C21_RxDoneNeverRemoved ==
    [][Bit(event_scheduled, LEUART_RX_EVT) => Bit(event_scheduled', LEUART_RX_EVT)]_vars

\* what the receiver makes of the line: it is deaf until a start marker, takes
\* the frame through its stop marker, and is deaf again
RECURSIVE LineParse(_)
LineParse(line) ==
    IF line = <<>> THEN [last |-> <<>>, cur |-> <<>>, open |-> FALSE]
    ELSE LET r == LineParse(SubSeq(line, 1, Len(line) - 1))
             b == line[Len(line)]
         IN  IF ~r.open
                 THEN IF b = STARTF_CHAR THEN [r EXCEPT !.open = TRUE, !.cur = <<b>>] ELSE r
                 ELSE IF b = SIGF_CHAR
                     THEN [last |-> Append(r.cur, b), cur |-> <<>>, open |-> FALSE]
                     ELSE [r EXCEPT !.cur = Append(@, b)]

\* this step ran Si7021_temp_done_evt, the only caller of rx_str_copy
ReadDoneStep ==
    Bit(event_scheduled, SI7021_READ_EVT) /\ ~Bit(event_scheduled', SI7021_READ_EVT)

\* C22: the buffer is copied only while no frame is in progress, and the
\* string copied is the last complete frame the receiver took, whole.
C22_CopyIsOneWholeMessage ==
    [][ReadDoneStep =>
          /\ ~lePayload.rxbusy
          /\ le_hist'.copied = LineParse(le_hist.line).last]_vars

\* C22, the part the code keeps: a copy made while no frame is in progress is
\* the last complete frame
C22_CopyAtRestIsWholeMessage ==
    [][(ReadDoneStep /\ ~lePayload.rxbusy) =>
          le_hist'.copied = LineParse(le_hist.line).last]_vars

\* C23: no call of sleep_unblock_mode finds the count of its level at zero,
\* in the bus engine, the link transmitter or the timer's start and stop.
C23_EveryUnblockIsMatched == fatal # "sleep_unblock_mode"

\* C23, the part the code keeps: the bus engine and the link transmitter
\* unblock only what they blocked; only main's setup unblocks at zero
C23_BusAndLinkUnblocksMatched == (fatal = "sleep_unblock_mode") => fg.op = "setup"

(***************************************************************************)
(* Properties of the bus engine's transition table.                        *)
(***************************************************************************)
\* this step handled the signal
Handled(signal) ==
    /\ Len(i2c_hist'.sig) = Len(i2c_hist.sig) + 1
    /\ i2c_hist'.sig[Len(i2c_hist'.sig)] = signal

\* the engine goes from one state to the other in this step
Moves(from, to) == payload.current_state = from /\ payload'.current_state = to

\* C24: the engine's state changes only along initialize, send_measure_cmd,
\* send_read_cmd, receive_data, end_process and back to initialize, each
\* change in the step that handles the signal named for it and with the
\* action named for it, and each of these signals makes its change.
C24_StateChangesAlongTheChain ==
    [][/\ payload'.current_state # payload.current_state =>
            \/ /\ Moves("initialize", "send_measure_cmd") /\ Handled("ACK")
               /\ i2c'.txdata = payload.cmd
            \/ /\ Moves("send_measure_cmd", "send_read_cmd") /\ Handled("ACK")
               /\ i2c'.txdata = ShiftLeft(payload.device_address, 1) + read
               /\ i2c'.phase = "addrR"
            \/ /\ Moves("send_read_cmd", "receive_data") /\ Handled("ACK")
            \/ /\ Moves("receive_data", "end_process") /\ Handled("RXDATAV")
               /\ payload'.bytes = 0
               /\ i2c'.phase = "stop"
            \/ /\ Moves("end_process", "initialize") /\ Handled("MSTOP")
       /\ (Handled("ACK") /\ fatal' = "") =>
            \/ Moves("initialize", "send_measure_cmd")
            \/ Moves("send_measure_cmd", "send_read_cmd")
            \/ Moves("send_read_cmd", "receive_data")
       /\ (Handled("RXDATAV") /\ fatal' = "" /\ payload'.bytes = 0) =>
            Moves("receive_data", "end_process")
       /\ (Handled("MSTOP") /\ fatal' = "") => Moves("end_process", "initialize")]_vars

\* a read has gone round the whole chain, with one retry of the read address
C24_Witness ==
    /\ i2c_hist.sig = <<"ACK", "ACK", "NACK", "ACK", "RXDATAV", "RXDATAV", "MSTOP">>
    /\ payload.current_state = "initialize"
    /\ fatal = ""

\* the state and signal pairs the transition table marks fatal
FatalPair(state, signal) ==
    \/ state \in {"initialize", "send_measure_cmd"} /\ signal \in {"NACK", "RXDATAV", "MSTOP"}
    \/ state = "send_read_cmd" /\ signal \in {"RXDATAV", "MSTOP"}
    \/ state = "receive_data" /\ signal \in {"ACK", "NACK", "MSTOP"}
    \/ state = "end_process" /\ signal \in {"ACK", "NACK", "RXDATAV"}

\* C25: a signal handled in a state that makes a fatal pair with it ends in
\* the handler's fatal assertion, and the step posts no event, releases no
\* block and leaves the engine's state as it was.
C25_FatalPairsHaltAndChangeNothing ==
    [][\A signal \in I2C_IEN :
          (Handled(signal) /\ FatalPair(payload.current_state, signal)) =>
              /\ fatal' # ""
              /\ event_scheduled' = event_scheduled
              /\ i2c_hist'.posts = i2c_hist.posts
              /\ lowest_energy_mode' = lowest_energy_mode
              /\ payload' = payload]_vars

\* a Stop while data was being received has halted the engine, block held
C25_Witness ==
    /\ fatal = "I2C_MSTOP"
    /\ payload.current_state = "receive_data"
    /\ i2c_hist.sig = <<"ACK", "ACK", "ACK", "MSTOP">>
    /\ lowest_energy_mode[I2C_EM_BLOCK] = 1
    /\ event_scheduled = 0

\* how often the signal was handled in the transaction so far
Count(sig, signal) == Cardinality({i \in 1 .. Len(sig) : sig[i] = signal})

\* C26: a NACK handled in send_read_cmd leaves the engine there, running,
\* reissues the repeated start with the read address, posts no event and
\* releases no block; while the engine waits there it has reissued once per
\* NACK, posted nothing and holds its block; and an ACK handled there moves
\* it to receive_data, however many NACKs came before.
C26_NackRetriesWithoutBound ==
    /\ [][(Handled("NACK") /\ payload.current_state = "send_read_cmd") =>
              /\ fatal' = ""
              /\ payload'.current_state = "send_read_cmd"
              /\ i2c_hist'.restarts = i2c_hist.restarts + 1
              /\ i2c'.txdata = ShiftLeft(payload.device_address, 1) + read
              /\ i2c'.phase = "addrR"
              /\ event_scheduled' = event_scheduled
              /\ lowest_energy_mode' = lowest_energy_mode]_vars
    /\ []((payload.current_state = "send_read_cmd" /\ fatal = "") =>
              /\ i2c_hist.restarts = Count(i2c_hist.sig, "NACK")
              /\ i2c_hist.posts = 0
              /\ lowest_energy_mode[I2C_EM_BLOCK] >= 1)
    /\ [][(Handled("ACK") /\ payload.current_state = "send_read_cmd") =>
              /\ fatal' = ""
              /\ payload'.current_state = "receive_data"
              /\ i2c_hist'.restarts = i2c_hist.restarts]_vars

\* as many NACKs as the device gives in a run, then the ACK
C26_Witness ==
    /\ payload.current_state = "receive_data"
    /\ fatal = ""
    /\ i2c_hist.restarts = MaxNack
    /\ Count(i2c_hist.sig, "NACK") = MaxNack
    /\ i2c_hist.sig[Len(i2c_hist.sig)] = "ACK"
    /\ lowest_energy_mode[I2C_EM_BLOCK] = 1

\* C27: whenever the read-done handler reads raw_data, no transaction is in
\* progress and raw_data is the whole result of the last finished one.
C27_HandlerReadsFinishedResult ==
    [][ReadDoneStep =>
          /\ i2c_hist.open = 0
          /\ i2c_hist'.read = BigEndian(i2c_hist.rx)]_vars

\* C27, the part the code keeps: read with no transaction in progress,
\* raw_data is the whole result of the last finished one
C27_ReadAtRestIsFinishedResult ==
    [][(ReadDoneStep /\ i2c_hist.open = 0) =>
          i2c_hist'.read = BigEndian(i2c_hist.rx)]_vars

\* the handler has read a first byte without its second
C27_TornRead == i2c_hist.read = ShiftLeft(1, 8)

\* this step posted tx-done or cleared the transmit busy flag
TxDoneStep ==
    \/ le_hist'.tx_posts = le_hist.tx_posts + 1
    \/ lePayload.txbusy /\ ~lePayload'.txbusy
    \/ Bit(event_scheduled', LEUART_TX_EVT) /\ ~Bit(event_scheduled, LEUART_TX_EVT)

\* every byte of the send in progress has been written to the data register
\* and has left the shift register
AllBytesOut ==
    /\ le_hist.txlog = lePayload.str
    /\ le_hist.wire = lePayload.str
    /\ LeuartTxIdle(leuart)

\* C28: in the first send and in every later one, transmission-complete is
\* raised during the send only when every byte of it has been written and has
\* left the shift register, and tx-done is posted and busy cleared only in a
\* step that handles that signal.
C28_DoneOnlyAfterLastByteLeft ==
    /\ []((lePayload.txbusy /\ "TXC" \in leuart.IF_) => AllBytesOut)
    /\ [][TxDoneStep =>
              /\ "TXC" \in leuart.IF_ /\ "TXC" \in leuart.IEN
              /\ "TXC" \notin leuart'.IF_
              /\ AllBytesOut
              /\ lePayload.txbusy /\ ~lePayload'.txbusy
              /\ le_hist'.tx_posts = le_hist.tx_posts + 1
              /\ Bit(event_scheduled', LEUART_TX_EVT)]_vars

\* a later send, of two bytes, has been reported done
C28_Witness ==
    /\ fatal = ""
    /\ le_hist.sends = MaxSends
    /\ ~lePayload.txbusy
    /\ lePayload.str = <<66, 65>>
    /\ le_hist.wire = <<66, 65>>
    /\ le_hist.tx_posts = 1
    /\ LeuartTxIdle(leuart)


\* C29: from the posting of rx-done until the main loop has removed it, the
\* accumulation buffer and the cursor keep their values and no frame is opened.
C29_NextFrameWaitsForConsumer ==
    [][(fatal = "" /\ Bit(event_scheduled, LEUART_RX_EVT)) =>
          /\ lePayload'.received_str = lePayload.received_str
          /\ lePayload'.rx_count = lePayload.rx_count
          /\ (lePayload'.rxbusy => lePayload.rxbusy)]_vars


\* the byte the line took in this step arrived with no frame open and is not a
\* start marker
StrayByteStep ==
    /\ Len(le_hist'.line) = Len(le_hist.line) + 1
    /\ ~LineParse(le_hist.line).open
    /\ le_hist'.line[Len(le_hist'.line)] # STARTF_CHAR

\* the cursor after the frames the line has delivered so far
CursorOf(r) ==
    IF r.open THEN Len(r.cur) ELSE IF r.last = <<>> THEN 0 ELSE Len(r.last) + 1

\* C30: a byte that arrives while no frame is open is discarded by the
\* receiver and raises no interrupt; buffer and cursor hold what the frames
\* alone put there, whatever arrived between them; and the receiver halts on
\* nothing but a start marker inside an open frame.
C30_StrayBytesAreDiscarded ==
    /\ [][StrayByteStep => (leuart' = leuart /\ lePayload' = lePayload /\ fatal' = fatal)]_vars
    /\ [](LET r == LineParse(le_hist.line)
          IN  (Running /\ ~LeuartIrq) =>
                  /\ lePayload.rx_count = CursorOf(r)
                  /\ lePayload.rxbusy = r.open
                  /\ ~r.open => /\ CStr(lePayload.received_str, 0) = r.last
                                /\ leuart.rxblock /\ leuart.rxbuf = <<>>)
    /\ [](fatal # "" =>
              /\ fatal = "STARTF_Interrupt"
              /\ le_hist.line[Len(le_hist.line)] = STARTF_CHAR
              /\ LineParse(SubSeq(le_hist.line, 1, Len(le_hist.line) - 1)).open)

\* a stray byte before the frame "#A?" and another one after it
C30_Witness ==
    /\ fatal = "" /\ ~LeuartIrq
    /\ le_hist.line = <<65, STARTF_CHAR, 65, SIGF_CHAR, 66>>
    /\ lePayload.rx_count = 4
    /\ CStr(lePayload.received_str, 0) = <<STARTF_CHAR, 65, SIGF_CHAR>>


(***************************************************************************)
(* C31 .. C40                                                              *)
(***************************************************************************)
\* C31: between two runs of the link interrupt handler, also after a fatal
\* assertion inside it, the receive busy flag is set exactly in the states
\* start and receive, and the byte-available and stop-marker sources are both
\* enabled exactly while the busy flag is set.
C31_BusyMirrorsOpenFrame ==
    /\ lePayload.rxbusy <=> lePayload.rx_state \in {"start", "receive"}
    /\ "RXDATAV" \in leuart.IEN <=> lePayload.rxbusy
    /\ "SIGF" \in leuart.IEN <=> lePayload.rxbusy

\* a second frame is being received after a first one was closed
C31_Witness ==
    /\ fatal = "" /\ le_hist.rx_posts = 1
    /\ lePayload.rxbusy /\ lePayload.rx_state = "receive"
    /\ {"RXDATAV", "SIGF"} \subseteq leuart.IEN


\* the order in which the main loop is to service the events
ServiceOrder ==
    <<LETIMER0_UF_EVT, SI7021_READ_EVT, LEUART_RX_EVT, BOOT_UP_EVT, LEUART_TX_EVT>>

\* the order of the events that have a handler in main's loop
HandledOrder == <<LETIMER0_UF_EVT, SI7021_READ_EVT, BOOT_UP_EVT, LEUART_TX_EVT>>

InSeq(s, e) == \E i \in 1 .. Len(s) : s[i] = e

\* a step in which a handler starts: each event that stands before its event
\* in the order and was pending at the top of the pass has had its handler
\* run earlier in the pass
RunsInOrder(order) ==
    \A j \in 1 .. Len(order) :
        (fg'.ran = Append(fg.ran, order[j])) =>
            \A i \in 1 .. (j - 1) :
                Bit(fg.seen, order[i]) => InSeq(fg.ran, order[i])

\* C32: in each pass of the main loop the handlers run in the order timer
\* underflow, bus read complete, link rx complete, boot, link tx complete.
C32_ServicedInFixedOrder == [][RunsInOrder(ServiceOrder)]_vars

\* C32, the part the code keeps: the order among the events main has a handler for
C32_HandledInFixedOrder == [][RunsInOrder(HandledOrder)]_vars

\* a pass that began with the timer and read-done events pending has run
\* both handlers
C32_BothRan ==
    /\ fatal = ""
    /\ Bit(fg.seen, LETIMER0_UF_EVT) /\ Bit(fg.seen, SI7021_READ_EVT)
    /\ Len(fg.ran) >= 2
    /\ fg.ran[1] = LETIMER0_UF_EVT /\ fg.ran[2] = SI7021_READ_EVT


\* C33: main is never inside ble_circ_pop waiting for the transmit busy flag
\* to clear; a handler that calls ble_write or ble_circ_pop is back in main's
\* loop without any interrupt having to arrive.
C33_MainNeverWaitsForTransmitter == ~(fg.pc = "pop_wait" /\ lePayload.txbusy)


\* this step is a run of an interrupt handler
IrqStep == letimer'.IF_ # letimer.IF_ /\ letimer'.IF_ \subseteq letimer.IF_

\* C34: no interrupt handler runs between the read and the write of a
\* read-modify-write of the pending set, of a cursor of the queue or of its
\* counter.
C34_SharedUpdatesAreMasked ==
    [][IrqStep => /\ sch.pc # "loaded"
                  /\ fg.pc \notin {"wrt_store", "size_store"}]_vars

\* C34, the part the code keeps: the pending set and the counter of the queue
\* are read and written with no handler in between
C34_EventsAndCounterAreMasked ==
    [][IrqStep => /\ sch.pc # "loaded"
                  /\ fg.pc # "size_store"]_vars

\* a push that was interrupted has ended as the uninterrupted push ends
C34_PushDone ==
    /\ fg.pc = "run" /\ ble_hist.pushes = 1 /\ fg.string = <<1, 2>>
    /\ Bit(event_scheduled, LETIMER0_UF_EVT)
    /\ ble_cbuf.write_ptr = 3 /\ ble_cbuf.size = CSIZE - 3


\* the bus handler is between its first and its last statement
InBusHandler == i2c_hist.isr # ""

\* C35: interrupt delivery is disabled in every state between the handler's
\* __disable_irq() and its final __enable_irq(), and no other handler runs in
\* between.
C35_HandlerStaysMasked ==
    /\ [](InBusHandler /\ Running => primask)
    /\ [][InBusHandler => ~IrqStep]_vars

\* C35, the part the code keeps: the state update, the event and the unblock
\* of one handler run are not separated by another handler
C35_HandlerNotInterleaved == [][InBusHandler => ~IrqStep]_vars

\* the timer interrupt became pending inside the handler and was served
\* after it, the read-done event posted and the block released
C35_TimerWaited ==
    /\ ~InBusHandler /\ fatal = ""
    /\ i2c_hist.posts = 1 /\ i2c_hist.unblocks = 1
    /\ payload.current_state = "initialize"
    /\ Bit(event_scheduled, SI7021_READ_EVT) /\ Bit(event_scheduled, LETIMER0_UF_EVT)


\* C36: no data byte and no terminator is ever written into received_str at
\* an index of 80 or more, whatever the length of the frame
C36_CursorStaysInBuffer == ~le_hist.oob


\* C37: transmission-complete is enabled only from the write of a send's last
\* byte until that send's completion is handled; it is disabled whenever the
\* transmitter is in the Transmitting state, and no transmission-complete
\* signal is handled in that state
C37_TxcArmedOnlyForCompletion ==
    /\ lePayload.state = "transmit" => "TXC" \notin leuart.IEN
    /\ "TXC" \in leuart.IEN => lePayload.state = "transmit_done" /\ lePayload.txbusy
    /\ fatal # "TXC_Interrupt"

\* the part that holds of the code: no transmission-complete signal is handled
\* in the Transmitting state
C37_TxcNotServedInTransmit == fatal # "TXC_Interrupt"

\* a second send is under way, its first byte written and more to come
C37_SecondSendUnderWay ==
    /\ fatal = "" /\ le_hist.sends = 2 /\ le_hist.tx_posts = 0
    /\ lePayload.state = "transmit" /\ lePayload.index = 1 /\ lePayload.count > 0


\* C38: the remaining byte count of a bus transaction never wraps below zero,
\* whatever byte count the transaction was started with, zero included
C38_ByteCountNeverWraps == payload.bytes # UINT_WRAP


\* C39: once leuart_open has returned, the block count of the link's level is
\* at least one in every reachable state: the block taken at open stays, each
\* send holds one more until its completion is handled, and the deepest level
\* permitted is never deeper than the link's
C39_LinkLevelStaysBlocked ==
    /\ LeuartBlocks >= 1
    /\ LeuartBlocks = 1 + (IF lePayload.txbusy THEN 1 ELSE 0)
    /\ current_block_energy_mode(lowest_energy_mode) <= LEUART_EM

\* a send has come and gone and the block of the open remains
C39_Witness ==
    /\ fatal = "" /\ le_hist.sends >= 1 /\ le_hist.tx_posts = 1 /\ le_hist.unblocks = 1
    /\ ~lePayload.txbusy /\ LeuartBlocks = 1


=============================================================================
